---- MODULE Spec2Model ----
(***************************************************************************)
(* uos_activpal.io.raw: the body decoder extract_accelerometer_data, the   *)
(* file-code patcher change_file_code and the loader load_activpal_data;   *)
(* uos_activpal.gui: the mark file of raw_marker's save, its peak search,  *)
(* and the zoom and pan of raw_viewer's plot.                              *)
(*                                                                         *)
(* numpy arrays of rows are kept run-length encoded (a sequence of runs    *)
(* [v |-> row value, n |-> repetitions]); NRows, At, TakeRows, DropRows    *)
(* and SetRow are len(a), a[k], a[:k], a[k:] and a[k] = v on that          *)
(* encoding, Rows(a) is the plain sequence of rows.                        *)
(***************************************************************************)
EXTENDS Integers, Sequences, FiniteSets, TLC

VARIABLES
    body, firmware, datx,   \* arguments of extract_accelerometer_data
    i, row, signals,        \* its locals
    oob_read,               \* it has read past the end of body unchecked
    pc,                     \* where the running call is, or how it ended
    call,                   \* the running (or last) top-level call
    fs,                     \* the files: path -> content
    file_content,           \* load_activpal_data: the bytes read
    metadata,               \* load_activpal_data: the Meta extracted
    hdr,                    \* the header handed to extract_metadata
    self,                   \* the ActivpalData object
    held,                   \* what the accessors handed to the caller
    sqrt_calls,             \* times ActivpalData.rss computed the channel
    reread,                 \* an accessor was read again after the caller
                            \* wrote into what it had handed out
    file_meta,              \* what extract_metadata_from_file returned
    writers, race,          \* concurrent change_file_code calls on one path
    csvfs, saves,           \* the mark files of MainWindow.save, the saves
    peak,                   \* the get_nearest_peak call
    xlim, plot              \* the x-limits of UIFilePlot's axes, its data

vars == <<body, firmware, datx, i, row, signals, oob_read, pc, call, fs,
          file_content, metadata, hdr, self, held, sqrt_calls, reread,
          file_meta, writers, race, csvfs, saves, peak, xlim, plot>>

\* the state of the marker and viewer windows and of the concurrent callers
guiVars == <<writers, race, csvfs, saves, peak, xlim, plot>>

\* what load_activpal_data leaves alone
dataVars == <<self, held, sqrt_calls, reread, file_meta, guiVars>>

\* what the body decoder leaves alone
loaderVars == <<call, fs, file_content, metadata, hdr, self, held,
                sqrt_calls, reread, file_meta, guiVars>>

(***************************************************************************)
(* Bounds of the model.                                                    *)
(***************************************************************************)
\* whole 3-byte groups of a generated body
MaxGroups == 2

(***************************************************************************)
(* Arrays of rows (numpy ndarray of shape [n, 3], dtype uint8).            *)
(***************************************************************************)
Run(v, n) == [v |-> v, n |-> n]

RECURSIVE NRows(_)
NRows(a) == IF a = << >> THEN 0 ELSE Head(a).n + NRows(Tail(a))

RECURSIVE At(_, _)
At(a, k) == IF k < Head(a).n THEN Head(a).v ELSE At(Tail(a), k - Head(a).n)

RECURSIVE TakeRows(_, _)
TakeRows(a, k) ==
    IF k <= 0 \/ a = << >> THEN << >>
    ELSE IF Head(a).n <= k THEN <<Head(a)>> \o TakeRows(Tail(a), k - Head(a).n)
    ELSE <<Run(Head(a).v, k)>>

RECURSIVE DropRows(_, _)
DropRows(a, k) ==
    IF a = << >> THEN << >>
    ELSE IF k <= 0 THEN a
    ELSE IF Head(a).n <= k THEN DropRows(Tail(a), k - Head(a).n)
    ELSE <<Run(Head(a).v, Head(a).n - k)>> \o Tail(a)

Join(a, b) ==
    IF a = << >> THEN b
    ELSE IF b = << >> THEN a
    ELSE IF a[Len(a)].v = Head(b).v
         THEN SubSeq(a, 1, Len(a) - 1)
              \o <<Run(Head(b).v, a[Len(a)].n + Head(b).n)>> \o Tail(b)
         ELSE a \o b

SetRow(a, k, v) == Join(Join(TakeRows(a, k), <<Run(v, 1)>>), DropRows(a, k + 1))

Rows(a) == [k \in 1..NRows(a) |-> At(a, k - 1)]

\* np.zeros([n, 3], dtype=np.uint8)
Zeros(n) == IF n = 0 THEN << >> ELSE <<Run(<<0, 0, 0>>, n)>>

(***************************************************************************)
(* extract_accelerometer_data(body, firmware, datx)                        *)
(***************************************************************************)
length == Len(body)

\* int(np.floor(length / 3) * 255)
MaxRowsOf(b) == (Len(b) \div 3) * 255

max_rows == MaxRowsOf(body)

adjust_nduplicates == firmware < 218

\* Offsets i+k of the 8-byte window of the current group that lie past the
\* end of body.  With bounds checking (plain Python, NUMBA_BOUNDSCHECK) a read
\* there raises IndexError; compiled by numba without bounds checking it
\* yields whatever byte follows the buffer.
OOBBytes == {0, 108}

OobOffsets == {k \in 0..7 : i + k >= length}

Garbage == [OobOffsets -> OOBBytes]

Byte(g, k) == IF i + k < length THEN body[i + k + 1] ELSE g[k]

x(g) == Byte(g, 0)

y(g) == Byte(g, 1)

z(g) == Byte(g, 2)

tail(g) ==
    IF datx
    THEN x(g) = 116 /\ y(g) = 97 /\ z(g) = 105 /\ Byte(g, 3) = 108
    ELSE x(g) = 0 /\ y(g) = 0 /\ z(g) > 0
         /\ Byte(g, 3) = 0 /\ Byte(g, 4) = 0
         /\ Byte(g, 5) > 0 /\ Byte(g, 6) > 0 /\ Byte(g, 7) = 0

\* Highest offset the iteration reads: x, y, z always, the rest as far as
\* the short-circuit `and` of the tail test gets.
LastRead(g) ==
    IF datx
    THEN IF x(g) = 116 /\ y(g) = 97 /\ z(g) = 105 THEN 3 ELSE 2
    ELSE IF ~(x(g) = 0 /\ y(g) = 0 /\ z(g) > 0) THEN 2
         ELSE IF Byte(g, 3) # 0 THEN 3
         ELSE IF Byte(g, 4) # 0 THEN 4
         ELSE IF ~(Byte(g, 5) > 0) THEN 5
         ELSE IF ~(Byte(g, 6) > 0) THEN 6
         ELSE 7

\* the iteration reads past the end of body
PastEnd(g) == i + LastRead(g) >= length

invalid(g) == x(g) = 255 /\ y(g) = 255 /\ z(g) = 255

compressed(g) == x(g) = 0 /\ y(g) = 0

nduplicates(g) == IF adjust_nduplicates THEN z(g) + 1 ELSE z(g)

\* signals[k] for k >= -1: a negative index counts from the end.
PrevIndex(a, k) == IF k < 0 THEN k + NRows(a) ELSE k

\* a[k], ..., a[k + n - 1] = v  (n >= 1, k + n <= len(a))
SetRows(a, k, n, v) ==
    Join(Join(TakeRows(a, k), <<Run(v, n)>>), DropRows(a, k + n))

\* for r in range(n): signals[row] = signals_prev; row += 1
\* where signals_prev is the view signals[p].  Every iteration stores the
\* same value: row p is overwritten, if at all, with itself.  The loop stops
\* at the first write that falls outside the buffer (ok is FALSE), the rows
\* before it written.
Duplicate(a, r, p, n) ==
    LET room == IF NRows(a) > r THEN NRows(a) - r ELSE 0
        m == IF n <= room THEN n ELSE room
    IN  [signals |-> IF m > 0 THEN SetRows(a, r, m, At(a, p)) ELSE a,
         row |-> r + m,
         ok |-> n <= room]

\* The outcomes of an access outside signals: IndexError with bounds
\* checking, an access outside the allocation without.
SignalsFault == {"IndexError_signals", "UB_signals"}

\* An iteration reads past the end of body; with bounds checking it raises.
BodyIndexError ==
    /\ pc = "loop"
    /\ i < length
    /\ \E g \in Garbage : PastEnd(g)
    /\ pc' = "IndexError_body"
    /\ UNCHANGED <<body, firmware, datx, i, row, signals, oob_read, loaderVars>>

\* TailStep without the truncation signals[:row]
TailStep_NoTruncate ==
    /\ pc = "loop"
    /\ i < length
    /\ \E g \in Garbage :
         /\ tail(g)
         /\ oob_read' = (oob_read \/ PastEnd(g))
         /\ pc' = "returned"
    /\ UNCHANGED <<body, firmware, datx, i, row, signals, loaderVars>>

\* if tail: signals = signals[:row]; break  (then: return signals)
TailStep ==
    /\ pc = "loop"
    /\ i < length
    /\ \E g \in Garbage :
         /\ tail(g)
         /\ oob_read' = (oob_read \/ PastEnd(g))
         /\ signals' = TakeRows(signals, row)
         /\ pc' = "returned"
    /\ UNCHANGED <<body, firmware, datx, i, row, loaderVars>>

\* elif invalid: signals[row] = signals[row - 1]; row += 1
InvalidStep ==
    /\ pc = "loop"
    /\ i < length
    /\ \E g \in Garbage :
         /\ ~tail(g)
         /\ invalid(g)
         /\ oob_read' = (oob_read \/ PastEnd(g))
         /\ LET p == PrevIndex(signals, row - 1)
                d == IF p < 0 THEN [signals |-> signals, row |-> row, ok |-> FALSE]
                     ELSE Duplicate(signals, row, p, 1)
            IN  /\ signals' = d.signals
                /\ row' = d.row
                /\ IF d.ok
                   THEN pc' = "loop" /\ i' = i + 3
                   ELSE pc' \in SignalsFault /\ i' = i
    /\ UNCHANGED <<body, firmware, datx, loaderVars>>

\* CompressedStep tried before the tail test
CompressedStep_BeforeTail ==
    /\ pc = "loop"
    /\ i < length
    /\ \E g \in Garbage :
         /\ ~invalid(g)
         /\ compressed(g)
         /\ oob_read' = (oob_read \/ PastEnd(g))
         /\ LET p == PrevIndex(signals, row - 1)
                d == IF p < 0 THEN [signals |-> signals, row |-> row, ok |-> FALSE]
                     ELSE Duplicate(signals, row, p, nduplicates(g))
            IN  /\ signals' = d.signals
                /\ row' = d.row
                /\ IF d.ok
                   THEN pc' = "loop" /\ i' = i + 3
                   ELSE pc' \in SignalsFault /\ i' = i
    /\ UNCHANGED <<body, firmware, datx, loaderVars>>

\* elif compressed: nduplicates copies of signals[row - 1]
CompressedStep ==
    /\ pc = "loop"
    /\ i < length
    /\ \E g \in Garbage :
         /\ ~tail(g)
         /\ ~invalid(g)
         /\ compressed(g)
         /\ oob_read' = (oob_read \/ PastEnd(g))
         /\ LET p == PrevIndex(signals, row - 1)
                d == IF p < 0 THEN [signals |-> signals, row |-> row, ok |-> FALSE]
                     ELSE Duplicate(signals, row, p, nduplicates(g))
            IN  /\ signals' = d.signals
                /\ row' = d.row
                /\ IF d.ok
                   THEN pc' = "loop" /\ i' = i + 3
                   ELSE pc' \in SignalsFault /\ i' = i
    /\ UNCHANGED <<body, firmware, datx, loaderVars>>

\* else: signals[row] = (x, y, z); row += 1
NormalStep ==
    /\ pc = "loop"
    /\ i < length
    /\ \E g \in Garbage :
         /\ ~tail(g)
         /\ ~invalid(g)
         /\ ~compressed(g)
         /\ oob_read' = (oob_read \/ PastEnd(g))
         /\ IF row < NRows(signals)
            THEN /\ signals' = SetRow(signals, row, <<x(g), y(g), z(g)>>)
                 /\ row' = row + 1
                 /\ pc' = "loop"
                 /\ i' = i + 3
            ELSE /\ pc' \in SignalsFault
                 /\ UNCHANGED <<signals, row, i>>
    /\ UNCHANGED <<body, firmware, datx, loaderVars>>

\* The for loop is exhausted: return signals
ReturnStep ==
    /\ pc = "loop"
    /\ i >= length
    /\ pc' = "returned"
    /\ UNCHANGED <<body, firmware, datx, i, row, signals, oob_read, loaderVars>>


(***************************************************************************)
(* extract_metadata(header)                                                *)
(*                                                                         *)
(* header is a numpy uint8 array; header[k] is H(header, k).  A uint8      *)
(* scalar combined with a Python int gives an int64 (the value-based       *)
(* promotion of the numpy the package was written for), so none of the     *)
(* sums below wraps.                                                       *)
(***************************************************************************)
H(header, k) == header[k + 1]

\* datetime.datetime(year, month, day, hour, minute, second) accepts
IsLeap(yr) == yr % 4 = 0 /\ (yr % 100 # 0 \/ yr % 400 = 0)

DaysInMonth(yr, mo) ==
    IF mo \in {1, 3, 5, 7, 8, 10, 12} THEN 31
    ELSE IF mo \in {4, 6, 9, 11} THEN 30
    ELSE IF IsLeap(yr) THEN 29 ELSE 28

\* ValidDatetime with every month taken to have 31 days
ValidDatetime_AnyDay(d) ==
    /\ d[1] \in 1..9999
    /\ d[2] \in 1..12
    /\ d[3] \in 1..31
    /\ d[4] \in 0..23
    /\ d[5] \in 0..59
    /\ d[6] \in 0..59

ValidDatetime(d) ==
    /\ d[1] \in 1..9999
    /\ d[2] \in 1..12
    /\ d[3] \in 1..DaysInMonth(d[1], d[2])
    /\ d[4] \in 0..23
    /\ d[5] \in 0..59
    /\ d[6] \in 0..59

RECURSIVE DaysBeforeMonth(_, _)
DaysBeforeMonth(yr, mo) ==
    IF mo <= 1 THEN 0 ELSE DaysInMonth(yr, mo - 1) + DaysBeforeMonth(yr, mo - 1)

\* datetime.toordinal, and the second of the day
Ordinal(d) ==
    LET py == d[1] - 1
    IN  py * 365 + py \div 4 - py \div 100 + py \div 400
        + DaysBeforeMonth(d[1], d[2]) + d[3]

SecondOfDay(d) == d[4] * 3600 + d[5] * 60 + d[6]

\* stop - start, a timedelta normalised to 0 <= seconds < 86400
Timedelta(stop, start) ==
    LET dd == Ordinal(stop) - Ordinal(start)
        ds == SecondOfDay(stop) - SecondOfDay(start)
    IN  IF ds < 0 THEN [days |-> dd - 1, seconds |-> ds + 86400]
        ELSE [days |-> dd, seconds |-> ds]

start_datetime(header) ==
    <<H(header, 261) + 2000, H(header, 260), H(header, 259),
      H(header, 256), H(header, 257), H(header, 258)>>

stop_datetime(header) ==
    <<H(header, 267) + 2000, H(header, 266), H(header, 265),
      H(header, 262), H(header, 263), H(header, 264)>>

\* dict.get(key): <<value>>, or None for a key the dict does not have
None == << >>

resolution_map(b) ==
    IF b = 0 THEN <<2>> ELSE IF b = 1 THEN <<4>> ELSE IF b = 2 THEN <<8>> ELSE None

\* axes_map without the key 1
axes_map_NoSingle(b) == IF b = 0 THEN <<3>> ELSE None

axes_map(b) == IF b = 0 THEN <<3>> ELSE IF b = 1 THEN <<1>> ELSE None

start_condition_map(b) ==
    IF b = 0 THEN <<"Trigger">> ELSE IF b = 1 THEN <<"Immediately">>
    ELSE IF b = 2 THEN <<"Set Time">> ELSE None

stop_condition_map(b) ==
    IF b = 0 THEN <<"Memory Full">> ELSE IF b = 3 THEN <<"Low Battery">>
    ELSE IF b = 64 THEN <<"USB">> ELSE IF b = 128 THEN <<"Programmed Time">>
    ELSE None

\* header[512:520]: a slice stops at the end of the array
FileCodeBytes(header) ==
    SubSeq(header, 513, IF Len(header) < 520 THEN Len(header) ELSE 520)

\* the bytes of s before its first zero byte
RECURSIVE UptoNul(_)
UptoNul(s) ==
    IF s = << >> \/ Head(s) = 0 THEN << >> ELSE <<Head(s)>> \o UptoNul(Tail(s))

\* file_code with the first zero byte ending the string
file_code_Terminated(header) == UptoNul(FileCodeBytes(header))

\* ''.join([(chr(x) if not x == 0 else '') for x in header[512:520]])
\* a str is the sequence of its code points; chr(x) is code point x
file_code(header) == SelectSeq(FileCodeBytes(header), LAMBDA b : b # 0)

device_id(header) ==
    (H(header, 10) % 10) * 100000 + H(header, 14) * 10000
    + H(header, 40) * 4096 + H(header, 11) * 256 + H(header, 12) * 16
    + H(header, 13)

\* err is "none" and the fields are those of Meta, or err is the exception:
\* the highest index read is 280, before the dates are built.
extract_metadata(header) ==
    IF Len(header) <= 280 THEN [err |-> "IndexError_header"]
    ELSE IF ~ValidDatetime(start_datetime(header))
            \/ ~ValidDatetime(stop_datetime(header))
    THEN [err |-> "ValueError_date"]
    ELSE [err |-> "none",
          firmware |-> H(header, 39) * 255 + H(header, 17),
          bitdepth |-> IF H(header, 38) < 128 THEN 8 ELSE 10,
          resolution |-> resolution_map(IF H(header, 38) < 128
                                        THEN H(header, 38)
                                        ELSE H(header, 38) - 128),
          hz |-> H(header, 35),
          axes |-> axes_map(H(header, 280)),
          start_datetime |-> start_datetime(header),
          stop_datetime |-> stop_datetime(header),
          duration |-> Timedelta(stop_datetime(header), start_datetime(header)),
          start_condition |-> start_condition_map(H(header, 268)),
          stop_condition |-> stop_condition_map(H(header, 275)),
          file_code |-> file_code(header),
          device_id |-> device_id(header)]

(***************************************************************************)
(* Files.  A path is the sequence of its characters, a str the sequence of *)
(* its code points, a file the sequence of its bytes.                      *)
(***************************************************************************)
Absent == [kind |-> "absent", data |-> << >>]

Directory == [kind |-> "dir", data |-> << >>]

File(bytes) == [kind |-> "file", data |-> bytes]

\* os.path.isfile
isfile(p) == fs[p].kind = "file"

\* str.rfind, 1-based: 0 when c does not occur
RFind(p, c) ==
    LET at == {k \in 1..Len(p) : p[k] = c}
    IN  IF at = {} THEN 0 ELSE CHOOSE k \in at : \A j \in at : j <= k

\* os.path.splitext (posixpath): the extension starts at the last dot of the
\* last component, unless that component has only leading dots before it
splitext(p) ==
    LET sepIndex == RFind(p, "/")
        dotIndex == RFind(p, ".")
    IN  IF dotIndex > sepIndex
           /\ \E k \in (sepIndex + 1)..(dotIndex - 1) : p[k] # "."
        THEN <<SubSeq(p, 1, dotIndex - 1), SubSeq(p, dotIndex, Len(p))>>
        ELSE <<p, << >>>>

\* bytes(new_code, 'ascii') succeeds
IsAscii(code) == \A k \in 1..Len(code) : code[k] < 128

\* bytes.ljust(8, b'\x00')
Ljust(bytes, width) ==
    IF Len(bytes) >= width THEN bytes
    ELSE bytes \o [k \in 1..(width - Len(bytes)) |-> 0]

\* new_bytes without the ljust
new_bytes_Unpadded(new_code) == new_code

new_bytes(new_code) == Ljust(new_code, 8)

\* WriteAt on a file opened with 'w+b', which empties it
WriteAt_Truncating(data, offset, bytes) ==
    [k \in 1..(offset + Len(bytes)) |->
        IF k > offset THEN bytes[k - offset] ELSE 0]

\* open(path, 'r+b'); f.seek(offset, 0); f.write(bytes): a write past the end
\* extends the file, the gap reads as zero bytes
WriteAt(data, offset, bytes) ==
    LET end == offset + Len(bytes)
        n == IF Len(data) > end THEN Len(data) ELSE end
    IN  [k \in 1..n |->
            IF k > offset /\ k <= end THEN bytes[k - offset]
            ELSE IF k <= Len(data) THEN data[k] ELSE 0]

(***************************************************************************)
(* Inputs.                                                                 *)
(***************************************************************************)
\* two normal samples, the three run-length codes, the invalid sentinel and
\* the first three bytes of the .datx tail marker
Groups ==
    { <<1, 0, 2>>, <<108, 0, 1>>, <<0, 0, 0>>, <<0, 0, 2>>, <<0, 0, 255>>,
      <<255, 255, 255>>, <<116, 97, 105>> }

\* bytes after the last whole group
Trails == { << >>, <<108>>, <<0>>, <<1, 0>>, <<108, 0>> }

RECURSIVE Flatten(_)
Flatten(gs) == IF gs = << >> THEN << >> ELSE Head(gs) \o Flatten(Tail(gs))

GroupSeqs == UNION { [1..n -> Groups] : n \in 0..MaxGroups }

\* as many groups (0,0,255) as one group has buffer rows, then one more group
LongBodies ==
    { [k \in 1..(3 * 255) |-> IF k % 3 = 0 THEN 255 ELSE 0] \o g : g \in Groups }

\* .dat bodies with rows before the 8-byte tail pattern: a sample, a run of
\* 2, then (0,0,7) followed by 0,0,3,5,0; and the same with a byte after
TailBodies ==
    { <<1, 0, 2, 0, 0, 2, 0, 0, 7, 0, 0, 3, 5, 0>>,
      <<1, 0, 2, 0, 0, 2, 0, 0, 7, 0, 0, 3, 5, 0, 9>> }

Bodies ==
    { Flatten(gs) \o t : gs \in GroupSeqs, t \in Trails }
    \cup LongBodies \cup TailBodies

Firmwares == {217, 218}

\* paths: a.datx, b.dat, B.DAT, c.foo, .dat (a hidden file without
\* extension), d.dat/e (the dot is in the directory)
Paths ==
    { <<"a", ".", "d", "a", "t", "x">>, <<"b", ".", "d", "a", "t">>,
      <<"B", ".", "D", "A", "T">>, <<"c", ".", "f", "o", "o">>,
      <<".", "d", "a", "t">>, <<"d", ".", "d", "a", "t", "/", "e">> }

\* file codes: "", "A", "TEST", "ABCDEFG", "ABCDEFGH", "ABCDEFGHI", "A\0B",
\* U+00E9, and U+00E9 nine times
Codes ==
    { << >>, <<65>>, <<84, 69, 83, 84>>, <<65, 66, 67, 68, 69, 70, 71>>,
      <<65, 66, 67, 68, 69, 70, 71, 72>>,
      <<65, 66, 67, 68, 69, 70, 71, 72, 73>>, <<65, 0, 66>>, <<233>>,
      [k \in 1..9 |-> 233] }

\* A header of n bytes: firmware fw (< 256), 20 Hz, start 2017-01-02 03:04:05,
\* stop 2017-01-09 03:04:05 (month mo), file code field code8, zero elsewhere
HeaderBytes(n, fw, mo, code8) ==
    [k \in 1..n |->
        LET j == k - 1
        IN  IF j = 17 THEN fw
            ELSE IF j = 35 THEN 20
            ELSE IF j = 38 THEN 129
            ELSE IF j \in {256, 262} THEN 3
            ELSE IF j \in {257, 263} THEN 4
            ELSE IF j \in {258, 264} THEN 5
            ELSE IF j = 259 THEN 2
            ELSE IF j = 265 THEN 9
            ELSE IF j \in {260, 266} THEN mo
            ELSE IF j \in {261, 267} THEN 17
            ELSE IF j = 268 THEN 1
            ELSE IF j = 275 THEN 64
            ELSE IF j \in 10..14 THEN j - 6
            ELSE IF j = 40 THEN 1
            ELSE IF j \in 512..519 THEN code8[j - 511]
            ELSE 0]

OldCode == <<79, 76, 68, 67, 79, 68, 69, 49>>

NoCode == <<0, 0, 0, 0, 0, 0, 0, 0>>

\* whole recordings (.datx and .dat layout), a recording cut inside its
\* tail marker, a header with month 0, and files of 520, 515 and 0 bytes
DatxRecording ==
    HeaderBytes(1024, 217, 1, OldCode)
    \o <<1, 0, 2, 255, 255, 255, 0, 0, 2, 116, 97, 105, 108, 9>>

Contents ==
    { DatxRecording,
      HeaderBytes(1023, 218, 1, NoCode)
          \o <<1, 0, 2, 0, 0, 2, 0, 0, 7, 0, 0, 3, 5, 0>>,
      HeaderBytes(1024, 218, 1, NoCode) \o <<1, 0, 2, 116, 97, 105>>,
      HeaderBytes(1024, 218, 0, NoCode) \o <<1, 0, 2>>,
      HeaderBytes(520, 218, 1, OldCode),
      HeaderBytes(515, 218, 1, OldCode),
      << >> }

\* header h with the bytes at the offsets of DOMAIN o replaced by those of o
SetBytes(h, o) ==
    [k \in 1..Len(h) |-> IF (k - 1) \in DOMAIN o THEN o[k - 1] ELSE h[k]]

\* a header of every length around the highest index read (280) and around
\* the file code field (512..519), and of the two nominal lengths
HeaderLengths ==
    {0, 1, 39, 280, 281, 282, 300, 511, 512, 513, 516, 519, 520, 1023, 1024}

\* the whole layout, valid dates
BaseHeader == HeaderBytes(520, 218, 1, OldCode)

\* the bytes of the four lookups: resolution, start condition, stop
\* condition, axes
LookupOffsets == {38, 268, 275, 280}

\* year, month, day, hour, minute, second bytes: 2000 and 2016 are leap
\* years, 2017 and 2100 are not
DateBytes ==
    {0, 16, 17, 100, 255} \X {0, 1, 2, 4, 12, 13} \X {0, 1, 28, 29, 30, 31, 32}
    \X {0, 23, 24} \X {0, 60} \X {59, 60}

\* the six start bytes, or the six stop bytes, set to d
StartBytes(d) ==
    261 :> d[1] @@ 260 :> d[2] @@ 259 :> d[3]
    @@ 256 :> d[4] @@ 257 :> d[5] @@ 258 :> d[6]

StopBytes(d) ==
    267 :> d[1] @@ 266 :> d[2] @@ 265 :> d[3]
    @@ 262 :> d[4] @@ 263 :> d[5] @@ 264 :> d[6]

\* file code fields of zero bytes, 'A' and U+00C8 in every arrangement
CodeFields == [1..8 -> {0, 65, 200}]

\* h is one of the headers extract_metadata is tried on: one of every length
\* of HeaderLengths; every value of each lookup byte, and of all four at
\* once; every start date and every stop date of DateBytes; every file code
\* field of CodeFields
IsHeader(h) ==
    \/ \E n \in HeaderLengths : h = HeaderBytes(n, 218, 1, OldCode)
    \/ \E o \in LookupOffsets, v \in 0..255 : h = SetBytes(BaseHeader, o :> v)
    \/ \E v \in 0..255 : h = SetBytes(BaseHeader, [o \in LookupOffsets |-> v])
    \/ \E d \in DateBytes : h = SetBytes(BaseHeader, StartBytes(d))
    \/ \E d \in DateBytes : h = SetBytes(BaseHeader, StopBytes(d))
    \/ \E c \in CodeFields : h = HeaderBytes(520, 218, 1, c)

NoCall == [fn |-> "none", path |-> << >>, code |-> << >>, result |-> ""]

NotRead == [read |-> FALSE, data |-> << >>]

NoMeta == [err |-> "unset"]

\* no ActivpalData object has been constructed
NoObject == [built |-> FALSE]

\* the accessors of ActivpalData that hand out a value
Accessors == {"signals", "timestamps", "x", "y", "z", "rss"}

\* the caller holds nothing
NothingHeld == [a \in Accessors |-> << >>]

\* extract_metadata_from_file has not been called
NotExtracted == [called |-> FALSE]

\* no concurrent callers, no marker window, no viewer
GuiIdle ==
    /\ writers = << >>
    /\ race = [serial |-> TRUE, order |-> << >>]
    /\ csvfs = << >>
    /\ saves = << >>
    /\ peak = [called |-> FALSE]
    /\ xlim = <<0, 0>>
    /\ plot = [loaded |-> FALSE]

(***************************************************************************)
(* change_file_code(file_path, new_code)                                   *)
(***************************************************************************)
\* ChangeResult without the assert on the length of the code
ChangeResult_NoLengthCheck(file_path, new_code) ==
    IF ~isfile(file_path) THEN "FileNotFoundError"
    ELSE IF ~IsAscii(new_code) THEN "UnicodeEncodeError"
    ELSE "None"

\* How the call ends: the exception raised, or "None" (it returns None).
ChangeResult(file_path, new_code) ==
    IF ~isfile(file_path) THEN "FileNotFoundError"
    ELSE IF ~(Len(new_code) <= 8) THEN "AssertionError"
    ELSE IF ~IsAscii(new_code) THEN "UnicodeEncodeError"
    ELSE "None"

\* A call that returns leaves the caller free to call again ("idle"); an
\* exception is not caught and ends the run.
ChangeFileCode ==
    /\ pc = "idle"
    /\ \E file_path \in Paths, new_code \in Codes :
         LET res == ChangeResult(file_path, new_code)
         IN  /\ call' = [fn |-> "change_file_code", path |-> file_path,
                         code |-> new_code, result |-> res]
             /\ pc' = IF res = "None" THEN "idle" ELSE res
             /\ fs' = IF res = "None"
                      THEN [fs EXCEPT ![file_path] =
                              File(WriteAt(fs[file_path].data, 512,
                                           new_bytes(new_code)))]
                      ELSE fs
    /\ UNCHANGED <<body, firmware, datx, i, row, signals, oob_read,
                   file_content, metadata, hdr, dataVars>>

(***************************************************************************)
(* load_activpal_data(file_path), up to the call of                        *)
(* extract_accelerometer_data; the decoder's steps follow, and its return  *)
(* is the return of (metadata, signals).                                   *)
(***************************************************************************)
DATX == <<".", "d", "a", "t", "x">>

DAT == <<".", "d", "a", "t">>

\* header_end with the two lengths exchanged
header_end_Swapped(file_ext) == IF file_ext = DATX THEN 1023 ELSE 1024

header_end(file_ext) == IF file_ext = DATX THEN 1024 ELSE 1023

\* a[:k] and a[k:] of a byte array
Upto(a, k) == SubSeq(a, 1, IF Len(a) < k THEN Len(a) ELSE k)

From(a, k) == SubSeq(a, k + 1, Len(a))

\* The body of load_activpal_data, called as fn: by the caller, or by
\* ActivpalData.__init__.
Load(fn) ==
    /\ pc = "idle"
    /\ \E file_path \in Paths :
         LET file_ext == splitext(file_path)[2]
             content == fs[file_path].data
             hd == Upto(content, header_end(file_ext))
             md == extract_metadata(hd)
             b == From(content, header_end(file_ext))
         IN  /\ call' = [fn |-> fn, path |-> file_path,
                         code |-> << >>, result |-> ""]
             /\ IF file_ext # DATX /\ file_ext # DAT
                THEN /\ pc' = "ValueError_extension"
                     /\ UNCHANGED <<body, firmware, datx, i, row, signals,
                                    oob_read, file_content, metadata, hdr>>
                ELSE IF ~isfile(file_path)
                THEN /\ pc' = "OSError"
                     /\ UNCHANGED <<body, firmware, datx, i, row, signals,
                                    oob_read, file_content, metadata, hdr>>
                ELSE IF md.err # "none"
                THEN /\ pc' = md.err
                     /\ file_content' = [read |-> TRUE, data |-> content]
                     /\ hdr' = hd
                     /\ UNCHANGED <<body, firmware, datx, i, row, signals,
                                    oob_read, metadata>>
                ELSE /\ file_content' = [read |-> TRUE, data |-> content]
                     /\ hdr' = hd
                     /\ metadata' = md
                     /\ body' = b
                     /\ firmware' = md.firmware
                     /\ datx' = (file_ext = DATX)
                     /\ i' = 0
                     /\ row' = 0
                     /\ signals' = Zeros(MaxRowsOf(b))
                     /\ oob_read' = FALSE
                     /\ pc' = "loop"
    /\ UNCHANGED <<fs, dataVars>>

LoadActivpalData == Load("load_activpal_data")

(***************************************************************************)
(* ActivpalData.  A float of the frame is kept as its numerator over 63    *)
(* (data_g = (signals - 127) / 63), a magnitude as the radicand of its     *)
(* square root in the same unit; a column is run-length encoded like the   *)
(* rows of signals.  The index is date_range(start, periods, freq): its    *)
(* start, the Tick of freq (unit and count), the number of periods, and    *)
(* the positions written since (set: position -> ticks after start).       *)
(***************************************************************************)
RECURSIVE Canon(_)
Canon(a) == IF a = << >> THEN << >> ELSE Join(<<Head(a)>>, Canon(Tail(a)))

\* the array of F(row) for the rows of a
MapRuns(a, F(_)) == Canon([k \in 1..Len(a) |-> Run(F(a[k].v), a[k].n)])

\* (np.array(signals, dtype=np.float64) - 127) / 63
data_g(a) ==
    MapRuns(a, LAMBDA v : <<v[1] - 127, v[2] - 127, v[3] - 127>>)

\* Intervals with the sample rate taken as the number of milliseconds
Intervals_Hz(hz) == IF hz = 0 THEN {} ELSE {[unit |-> "ms", n |-> hz]}

\* pd.tseries.offsets.Milli() * (1000 / hz), the Ticks it can be.  1000 / hz
\* is a float.  A whole number gives the Tick of that many milliseconds.
\* Otherwise the outcome is that of the pandas installed: the Tick of the
\* whole milliseconds below (n = int(n)), a ValueError (n must be an
\* integer), or the Tick of that many microseconds or nanoseconds when that
\* is a whole number of them and a ValueError when not.  For hz = 0 the
\* float is inf, which no Tick takes.
Intervals(hz) ==
    IF hz = 0 THEN {}
    ELSE IF 1000 % hz = 0 THEN {[unit |-> "ms", n |-> 1000 \div hz]}
    ELSE {[unit |-> "ms", n |-> 1000 \div hz]}
         \cup (IF 1000000 % hz = 0
               THEN {[unit |-> "us", n |-> 1000000 \div hz]}
               ELSE IF 1000000000 % hz = 0
               THEN {[unit |-> "ns", n |-> 1000000000 \div hz]}
               ELSE {})

\* the multiplication can raise
IntervalRaises(hz) == IF hz = 0 THEN TRUE ELSE 1000 % hz # 0

\* pd.date_range(start, periods=periods, freq=interval)
date_range(start, periods, interval) ==
    [start |-> start, unit |-> interval.unit, n |-> interval.n,
     periods |-> periods, set |-> << >>]

\* index[k], in ticks of the index's unit after its start
TimestampAt(ind, k) == IF k \in DOMAIN ind.set THEN ind.set[k] ELSE k * ind.n

\* pd.DataFrame(data_g, columns=['x', 'y', 'z'], index=ind)
DataFrame(g, ind) == [xyz |-> g, rss |-> None, index |-> ind]

\* frame.columns
columns(frame) ==
    {"x", "y", "z"} \cup (IF frame.rss = None THEN {} ELSE {"rss"})

\* frame[c] for c in 'x', 'y', 'z'
AxisNo(c) == IF c = "x" THEN 1 ELSE IF c = "y" THEN 2 ELSE 3

Column(frame, c) == MapRuns(frame.xyz, LAMBDA v : v[AxisNo(c)])

\* np.sqrt(np.sum(np.square(frame[['x', 'y', 'z']]), axis=1))
RootSumSquares(frame) ==
    MapRuns(frame.xyz,
            LAMBDA v : [radicand |-> v[1] * v[1] + v[2] * v[2] + v[3] * v[3]])

\* .copy(): a new object with a copy of the data: what the caller writes
\* into the data does not reach the original.  The axes of the new object
\* are views of the original's: new Index objects over the SAME array.
copy(v) == [value |-> v, view |-> FALSE, written |-> FALSE]

\* the index of a copy: an Index object over the array of the original's
\* index
view(ind) == [value |-> ind, view |-> TRUE, written |-> FALSE]

\* what a caller writes into a value it was handed
Scribble == 9999

\* the value handed by accessor a has an element to overwrite
Writable(a, v) ==
    IF a = "timestamps" THEN v.periods > 0
    ELSE IF a = "signals" THEN NRows(v.xyz) > 0
    ELSE NRows(v) > 0

\* the first element of the value handed by accessor a overwritten
Written(a, v) ==
    IF a = "timestamps" THEN [v EXCEPT !.set = 0 :> (0 - Scribble)]
    ELSE IF a = "signals"
    THEN [v EXCEPT !.xyz = SetRow(v.xyz, 0, <<Scribble, Scribble, Scribble>>)]
    ELSE IF a = "rss" THEN SetRow(v, 0, [radicand |-> Scribble])
    ELSE SetRow(v, 0, Scribble)

\* the first element of the index array overwritten, seen from obj: the
\* array is the one the index of every copy was made over
WrittenThrough(obj) ==
    [obj EXCEPT !._signals.index = Written("timestamps", @)]

\* the same write seen from the values the caller holds: the index handed
\* out by timestamps and the index of the frame handed out by signals are
\* over that array, and so is the index of each series handed out by x, y,
\* z and rss (a series is kept here as its values alone)
IndexWritten(h) ==
    [a \in Accessors |->
        IF h[a] = << >> THEN << >>
        ELSE IF a = "timestamps"
        THEN <<[h[a][1] EXCEPT !.value = Written("timestamps", @),
                               !.written = TRUE]>>
        ELSE IF a = "signals"
        THEN <<[h[a][1] EXCEPT !.value.index = Written("timestamps", @)]>>
        ELSE h[a]]

\* ActivpalData.__init__: data = load_activpal_data(file_path)
ActivpalData_init == Load("ActivpalData")

\* ActivpalData.__init__ after load_activpal_data has returned
BuildFrame ==
    /\ pc = "returned"
    /\ call.fn = "ActivpalData"
    /\ \/ /\ IntervalRaises(metadata.hz)
          /\ pc' = "ValueError_interval"
          /\ UNCHANGED self
       \/ \E interval \in Intervals(metadata.hz) :
             /\ pc' = "ready"
             /\ self' = [built |-> TRUE,
                         _metadata |-> metadata,
                         _signals |->
                             DataFrame(data_g(signals),
                                       date_range(metadata.start_datetime,
                                                  NRows(signals), interval))]
    /\ UNCHANGED <<body, firmware, datx, i, row, signals, oob_read, call, fs,
                   file_content, metadata, hdr, held, sqrt_calls, reread,
                   file_meta, guiVars>>

\* what an accessor leaves alone
readVars == <<body, firmware, datx, i, row, signals, oob_read, call, fs,
              file_content, metadata, hdr, file_meta, guiVars>>

\* the value accessor a handed out before has been written into
Stale(a) == held[a] # << >> /\ held[a][1].written

\* ActivpalData.signals
ReadSignals ==
    /\ pc = "ready"
    /\ held' = [held EXCEPT !["signals"] = <<copy(self._signals)>>]
    /\ reread' = (reread \/ Stale("signals"))
    /\ UNCHANGED <<readVars, pc, self, sqrt_calls>>

\* ActivpalData.data: warning is not a name of the module
ReadData ==
    /\ pc = "ready"
    /\ pc' = "NameError"
    /\ UNCHANGED <<readVars, self, held, sqrt_calls, reread>>

\* ActivpalData.timestamps: self.signals.index
ReadTimestamps ==
    /\ pc = "ready"
    /\ held' = [held EXCEPT
                   !["timestamps"] = <<view(copy(self._signals).value.index)>>]
    /\ reread' = (reread \/ Stale("timestamps"))
    /\ UNCHANGED <<readVars, pc, self, sqrt_calls>>

\* ActivpalData.x, .y, .z
ReadAxis(c) ==
    /\ pc = "ready"
    /\ IF c \notin columns(self._signals)
       THEN pc' = "AttributeError" /\ UNCHANGED <<held, reread>>
       ELSE /\ held' = [held EXCEPT ![c] = <<copy(Column(self._signals, c))>>]
            /\ reread' = (reread \/ Stale(c))
            /\ UNCHANGED pc
    /\ UNCHANGED <<readVars, self, sqrt_calls>>

ReadX == ReadAxis("x")

ReadY == ReadAxis("y")

ReadZ == ReadAxis("z")

\* ReadRss without the assignment self._signals['rss'] = ...
ReadRss_NoCache ==
    /\ pc = "ready"
    /\ sqrt_calls' = sqrt_calls + 1
    /\ held' = [held EXCEPT !["rss"] = <<copy(RootSumSquares(self._signals))>>]
    /\ reread' = (reread \/ Stale("rss"))
    /\ UNCHANGED <<readVars, pc, self>>

\* ActivpalData.rss
ReadRss ==
    /\ pc = "ready"
    /\ LET frame == IF "rss" \notin columns(self._signals)
                    THEN [self._signals EXCEPT
                            !.rss = <<RootSumSquares(self._signals)>>]
                    ELSE self._signals
       IN  /\ sqrt_calls' = IF "rss" \notin columns(self._signals)
                            THEN sqrt_calls + 1 ELSE sqrt_calls
           /\ self' = [self EXCEPT !._signals = frame]
           /\ held' = [held EXCEPT !["rss"] = <<copy(frame.rss[1])>>]
           /\ reread' = (reread \/ Stale("rss"))
    /\ UNCHANGED <<readVars, pc>>

\* The caller overwrites an element of the data of a frame or series it
\* holds: the data is the copy's own.
Mutate ==
    /\ pc = "ready"
    /\ \E a \in Accessors :
         /\ held[a] # << >>
         /\ ~held[a][1].view
         /\ Writable(a, held[a][1].value)
         /\ held' = [held EXCEPT ![a] = <<[held[a][1] EXCEPT
                                             !.value = Written(a, @),
                                             !.written = TRUE]>>]
    /\ UNCHANGED <<readVars, pc, self, sqrt_calls, reread>>

\* The caller overwrites an element of the index it holds, or of the index
\* of a frame or series it holds (every accessor hands out one of these).  The Index refuses item assignment
\* (TypeError); its array, reached through .values, is the one array shared
\* with self._signals.index: the write lands there, or raises ValueError
\* in the caller where pandas hands the array out read-only (copy-on-write)
\* and nothing is written.
MutateIndex ==
    /\ pc = "ready"
    /\ held # NothingHeld
    /\ Writable("timestamps", self._signals.index)
    /\ \/ /\ held' = IndexWritten(held)
          /\ self' = WrittenThrough(self)
       \/ UNCHANGED <<self, held>>
    /\ UNCHANGED <<readVars, pc, sqrt_calls, reread>>

(***************************************************************************)
(* Spec: extract_accelerometer_data called on a body.                      *)
(***************************************************************************)
Init ==
    /\ body \in Bodies
    /\ firmware \in Firmwares
    /\ datx \in BOOLEAN
    /\ i = 0
    /\ row = 0
    /\ signals = Zeros(max_rows)
    /\ oob_read = FALSE
    /\ pc = "loop"
    /\ call = [fn |-> "extract_accelerometer_data", path |-> << >>,
               code |-> << >>, result |-> ""]
    /\ fs = [p \in {} |-> Absent]
    /\ file_content = NotRead
    /\ metadata = NoMeta
    /\ hdr = << >>
    /\ self = NoObject
    /\ held = NothingHeld
    /\ sqrt_calls = 0
    /\ reread = FALSE
    /\ file_meta = NotExtracted
    /\ GuiIdle

Next ==
    \/ BodyIndexError
    \/ TailStep
    \/ InvalidStep
    \/ CompressedStep
    \/ NormalStep
    \/ ReturnStep

Spec == Init /\ [][Next]_vars

(***************************************************************************)
(* extract_metadata_from_file(file_path)                                   *)
(***************************************************************************)
\* fromfile that stops at the middle of the file code field
fromfile_Short(data, count) == Upto(data, 516)

\* np.fromfile(file_path, dtype=np.uint8, count=count): the first count
\* bytes of the file, or all of them when it has fewer
fromfile(data, count) == Upto(data, count)

\* The caller asks for the metadata of a file after load_activpal_data has
\* returned.  A file that cannot be read, or a header extract_metadata
\* fails on, ends the run with the exception.
ExtractMetadataFromFile ==
    /\ pc = "returned"
    /\ call.fn = "load_activpal_data"
    /\ ~file_meta.called
    /\ \E file_path \in Paths :
         LET md == IF isfile(file_path)
                   THEN extract_metadata(fromfile(fs[file_path].data, 1024))
                   ELSE [err |-> "OSError"]
         IN  /\ file_meta' = [called |-> TRUE, path |-> file_path,
                              meta |-> md]
             /\ pc' = IF md.err = "none" THEN pc ELSE md.err
    /\ UNCHANGED <<body, firmware, datx, i, row, signals, oob_read, call, fs,
                   file_content, metadata, hdr, self, held, sqrt_calls,
                   reread, guiVars>>

(***************************************************************************)
(* SpecFile: one file on disk; change_file_code any number of times, then  *)
(* load_activpal_data, then extract_metadata_from_file.                    *)
(***************************************************************************)
InitFile ==
    /\ \E p \in Paths, c \in {File(d) : d \in Contents} \cup {Directory, Absent} :
         fs = [q \in Paths |-> IF q = p THEN c ELSE Absent]
    /\ pc = "idle"
    /\ call = NoCall
    /\ body = << >>
    /\ firmware = 0
    /\ datx = FALSE
    /\ i = 0
    /\ row = 0
    /\ signals = << >>
    /\ oob_read = FALSE
    /\ file_content = NotRead
    /\ metadata = NoMeta
    /\ hdr = << >>
    /\ self = NoObject
    /\ held = NothingHeld
    /\ sqrt_calls = 0
    /\ reread = FALSE
    /\ file_meta = NotExtracted
    /\ GuiIdle

NextFile ==
    \/ ChangeFileCode
    \/ LoadActivpalData
    \/ ExtractMetadataFromFile
    \/ BodyIndexError
    \/ TailStep
    \/ InvalidStep
    \/ CompressedStep
    \/ NormalStep
    \/ ReturnStep

SpecFile == InitFile /\ [][NextFile]_vars

(***************************************************************************)
(* SpecMeta: extract_metadata called on a header.                          *)
(***************************************************************************)
ExtractMetadata ==
    /\ pc = "idle"
    /\ LET md == extract_metadata(hdr)
       IN  /\ call' = [fn |-> "extract_metadata", path |-> << >>,
                       code |-> << >>, result |-> md.err]
           /\ metadata' = IF md.err = "none" THEN md ELSE metadata
           /\ pc' = IF md.err = "none" THEN "returned" ELSE md.err
    /\ UNCHANGED <<body, firmware, datx, i, row, signals, oob_read, fs,
                   file_content, hdr, dataVars>>

InitMeta ==
    /\ IsHeader(hdr)
    /\ pc = "idle"
    /\ call = NoCall
    /\ fs = [p \in {} |-> Absent]
    /\ body = << >>
    /\ firmware = 0
    /\ datx = FALSE
    /\ i = 0
    /\ row = 0
    /\ signals = << >>
    /\ oob_read = FALSE
    /\ file_content = NotRead
    /\ metadata = NoMeta
    /\ self = NoObject
    /\ held = NothingHeld
    /\ sqrt_calls = 0
    /\ reread = FALSE
    /\ file_meta = NotExtracted
    /\ GuiIdle

NextMeta == ExtractMetadata

SpecMeta == InitMeta /\ [][NextMeta]_vars

(***************************************************************************)
(* SpecData: ActivpalData(file_path) on a recording, then any reads of its *)
(* accessors, the caller writing into what it was handed.                  *)
(***************************************************************************)
\* sample rates other than the 20 Hz of Contents: whole microseconds (16),
\* no whole number of nanoseconds (3), none (0)
Rates == {0, 3, 16}

\* the recordings of Contents, and the first of them at each other rate
Recordings ==
    {c \in Contents : Len(c) > 1024}
    \cup { SetBytes(DatxRecording, 35 :> hz) : hz \in Rates }

InitData ==
    /\ \E p \in {<<"a", ".", "d", "a", "t", "x">>, <<"b", ".", "d", "a", "t">>},
          c \in Recordings :
         fs = [q \in Paths |-> IF q = p THEN File(c) ELSE Absent]
    /\ pc = "idle"
    /\ call = NoCall
    /\ body = << >>
    /\ firmware = 0
    /\ datx = FALSE
    /\ i = 0
    /\ row = 0
    /\ signals = << >>
    /\ oob_read = FALSE
    /\ file_content = NotRead
    /\ metadata = NoMeta
    /\ hdr = << >>
    /\ self = NoObject
    /\ held = NothingHeld
    /\ sqrt_calls = 0
    /\ reread = FALSE
    /\ file_meta = NotExtracted
    /\ GuiIdle

NextData ==
    \/ ActivpalData_init
    \/ BodyIndexError
    \/ TailStep
    \/ InvalidStep
    \/ CompressedStep
    \/ NormalStep
    \/ ReturnStep
    \/ BuildFrame
    \/ ReadSignals
    \/ ReadData
    \/ ReadTimestamps
    \/ ReadX
    \/ ReadY
    \/ ReadZ
    \/ ReadRss
    \/ Mutate
    \/ MutateIndex

SpecData == InitData /\ [][NextData]_vars

(***************************************************************************)
(* Properties of the body decoder (Spec).                                  *)
(***************************************************************************)
\* the whole group at byte offset k of b
GroupAt(b, k) == <<b[k + 1], b[k + 2], b[k + 3]>>

IsCompressedGroup(t) == t[1] = 0 /\ t[2] = 0

IsInvalidGroup(t) == t = <<255, 255, 255>>

IsMarkerGroup(t) == t = <<116, 97, 105>>

\* neither a run-length code, nor the invalid sentinel, nor the start of
\* the .datx tail marker
IsNormalGroup(t) ==
    ~IsCompressedGroup(t) /\ ~IsInvalidGroup(t) /\ ~(datx /\ IsMarkerGroup(t))

AllNormal == length % 3 = 0 /\ \A k \in 0..(length \div 3 - 1) :
                 IsNormalGroup(GroupAt(body, 3 * k))

\* the loop ran to the end of body (no tail stopped it) and returned, every
\* read inside body
Exhausted == pc = "returned" /\ i >= length /\ ~oob_read

\* C1: a body without tail marker decodes to exactly the rows produced when
\* the input is exhausted (as many rows as the row counter, no padding), and
\* an all-normal body of n triplets to exactly its n triplets in order.
C1_ExhaustedReturnsRowsProduced ==
    Exhausted =>
        /\ NRows(signals) = row
        /\ AllNormal =>
              /\ row = length \div 3
              /\ \A k \in 0..(row - 1) : At(signals, k) = GroupAt(body, 3 * k)

\* C2: at every step at most floor(len(body)/3)*255 rows have been written
\* and no row is written outside the buffer of that many rows.
C2_RowsStayInsideBuffer ==
    ~oob_read => (row <= max_rows /\ pc \notin SignalsFault)

\* C3: a body whose first group is a normal sample is decoded without an
\* exception and without a read at an index >= len(body), whatever its
\* length and content.
C3_DecoderTotal ==
    (length >= 3 /\ IsNormalGroup(GroupAt(body, 0))) =>
        (pc \in {"loop", "returned"} /\ ~oob_read)

\* the group at i is whole and is (0,0,z), at least one row has been
\* decoded, and the bytes of body do not make the group a tail
CompressedAfterRow ==
    /\ pc = "loop"
    /\ i + 2 < length
    /\ IsCompressedGroup(GroupAt(body, i))
    /\ row >= 1
    /\ ~(\A g \in Garbage : tail(g))

\* rows r .. r+n-1 of a equal v
RowsEqual(a, r, n, v) == \A k \in r..(r + n - 1) : At(a, k) = v

\* C4: a group (0,0,z) that is no tail and follows a decoded row appends
\* exactly z copies of that row when firmware >= 218 and z+1 copies when
\* firmware < 218.
C4_CompressedAppendsCopies ==
    [][CompressedAfterRow =>
          LET n == IF firmware < 218 THEN body[i + 3] + 1 ELSE body[i + 3]
          IN  /\ pc' = "loop"
              /\ row' = row + n
              /\ NRows(signals') >= row'
              /\ RowsEqual(signals', row, n, At(signals, row - 1))
              /\ TakeRows(signals', row) = TakeRows(signals, row)]_vars

\* the group at i is whole and is (255,255,255) and at least one row has
\* been decoded
InvalidAfterRow ==
    /\ pc = "loop"
    /\ i + 2 < length
    /\ IsInvalidGroup(GroupAt(body, i))
    /\ row >= 1

\* C5: a group (255,255,255) that follows a decoded row appends exactly one
\* row, equal to that row, for every firmware and both formats.
C5_InvalidAppendsOneCopy ==
    [][InvalidAfterRow =>
          /\ pc' = "loop"
          /\ row' = row + 1
          /\ NRows(signals') >= row'
          /\ At(signals', row) = At(signals, row - 1)
          /\ TakeRows(signals', row) = TakeRows(signals, row)]_vars

\* body is n normal triplets, then 116,97,105,108
MarkerAfterNormals(n) ==
    /\ datx
    /\ length >= 3 * n + 4
    /\ \A k \in 0..(n - 1) :
          /\ IsNormalGroup(GroupAt(body, 3 * k))
    /\ GroupAt(body, 3 * n) = <<116, 97, 105>>
    /\ body[3 * n + 4] = 108

\* C6: a .datx body of N normal triplets followed by 116,97,105,108 decodes,
\* without raising, to exactly those N triplets, whatever follows the marker.
C6_MarkerEndsDecoding ==
    \A n \in 0..(length \div 3) :
        MarkerAfterNormals(n) =>
            /\ pc \in {"loop", "returned"}
            /\ pc = "returned" =>
                  /\ NRows(signals) = n
                  /\ \A k \in 0..(n - 1) : At(signals, k) = GroupAt(body, 3 * k)

\* a decoded .datx body of one or more normal triplets, the marker, and
\* bytes after the marker
C6_Witness ==
    /\ pc = "returned"
    /\ \E n \in 1..(length \div 3) :
          MarkerAfterNormals(n) /\ length > 3 * n + 4

(***************************************************************************)
(* Properties of change_file_code and load_activpal_data (SpecFile).       *)
(***************************************************************************)
NoNul(code) == \A k \in 1..Len(code) : code[k] # 0

\* the last call was change_file_code and it returned
Patched == call.fn = "change_file_code" /\ call.result = "None"

\* the file code extract_metadata finds in the file at path p
StoredCode(p) == file_code(Upto(fs[p].data, 1024))

\* C7: after change_file_code(path, code) returns, for an ASCII code of at
\* most 8 characters without NUL, the file code extracted from the file's
\* header is exactly code, whatever bytes 512..519 held before; so the stored
\* code is that of the last successful call.
C7_RoundTrip ==
    (Patched /\ NoNul(call.code)) => StoredCode(call.path) = call.code

\* "TEST" has been written over the 8-character code of a whole recording
C7_Witness ==
    /\ Patched
    /\ call.code = <<84, 69, 83, 84>>
    /\ Len(fs[call.path].data) > 1024
    /\ fs[call.path].data[18] = 217
    /\ StoredCode(call.path) = <<84, 69, 83, 84>>

\* this step is a change_file_code that returns
PatchReturns ==
    pc = "idle" /\ call'.fn = "change_file_code" /\ call'.result = "None"

\* the step changes nothing but bytes 512..519 of the file at call'.path,
\* which become the code followed by zero bytes up to 8
OnlyFieldChanged ==
    LET p == call'.path
        old == fs[p].data
        new == fs'[p].data
    IN  /\ fs'[p].kind = "file"
        /\ Len(new) = Len(old)
        /\ \A k \in 1..Len(new) : k \notin 513..520 => new[k] = old[k]
        /\ Len(new) >= 520
        /\ \A k \in 1..8 :
              new[512 + k] = IF k <= Len(call'.code) THEN call'.code[k] ELSE 0
        /\ \A q \in Paths \ {p} : fs'[q] = fs[q]

\* C8 as stated: a successful change_file_code on any existing file changes
\* only bytes 512..519, which become the zero-padded code; every other byte
\* and the length of the file are unchanged.
C8_OnlyFieldChanged == [][PatchReturns => OnlyFieldChanged]_vars

\* C8 amended: the same for any existing file of at least 520 bytes.
C8_OnlyFieldChangedFrom520 ==
    [][(PatchReturns /\ Len(fs[call'.path].data) >= 520) => OnlyFieldChanged]_vars

\* a code has been written into a file longer than 520 bytes
C8_Witness ==
    /\ Patched
    /\ Len(fs[call.path].data) > 520
    /\ FileCodeBytes(fs[call.path].data) = <<65, 0, 0, 0, 0, 0, 0, 0>>

\* C9: change_file_code fails with FileNotFoundError when the path is not
\* an existing file and with AssertionError when the code is longer than 8
\* characters, and then no file is created and no byte of any file changes.
C9_FailsBeforeOpening ==
    [][(pc = "idle" /\ call'.fn = "change_file_code") =>
          /\ ~isfile(call'.path) =>
                (pc' = "FileNotFoundError" /\ fs' = fs)
          /\ (isfile(call'.path) /\ Len(call'.code) > 8) =>
                (pc' = "AssertionError" /\ fs' = fs)]_vars

\* a 9-character code was refused for an existing file
C9_Witness ==
    /\ pc = "AssertionError"
    /\ call.fn = "change_file_code"
    /\ isfile(call.path)
    /\ Len(call.code) = 9

Loading == call.fn = "load_activpal_data"

\* the load got as far as decoding the body
Decoding ==
    pc \in {"loop", "returned", "IndexError_body"} \cup SignalsFault

\* C10: load_activpal_data splits the file at offset 1024 for the extension
\* .datx and at 1023 for .dat; for any other extension it raises ValueError
\* without reading the file and without metadata or samples.
C10_SplitByExtension ==
    Loading =>
        LET file_ext == splitext(call.path)[2]
            data == fs[call.path].data
        IN  /\ (file_ext = DATX /\ Decoding) =>
                  /\ body = From(data, 1024)
                  /\ metadata = extract_metadata(Upto(data, 1024))
                  /\ datx
            /\ (file_ext = DAT /\ Decoding) =>
                  /\ body = From(data, 1023)
                  /\ metadata = extract_metadata(Upto(data, 1023))
                  /\ ~datx
            /\ (file_ext # DATX /\ file_ext # DAT) =>
                  /\ pc = "ValueError_extension"
                  /\ file_content = NotRead
                  /\ metadata = NoMeta
                  /\ signals = << >>

\* c.foo exists, holds a whole recording, and its load was refused
C10_Witness ==
    /\ Loading
    /\ pc = "ValueError_extension"
    /\ call.path = <<"c", ".", "f", "o", "o">>
    /\ Len(fs[call.path].data) > 1024

(***************************************************************************)
(* Properties of extract_metadata (SpecMeta).                              *)
(***************************************************************************)
\* the layout ends with the file code field, bytes 512..519
RequiredHeaderLength == 520

\* extract_metadata has been called and has ended
Extracted == call.fn = "extract_metadata"

\* C11: extract_metadata given a header shorter than the layout (520 bytes)
\* fails with IndexError and returns no Meta, for every such length.
C11_ShortHeaderFails ==
    (Extracted /\ Len(hdr) < RequiredHeaderLength) =>
        (pc = "IndexError_header" /\ metadata = NoMeta)

\* the header has every byte extract_metadata indexes
Indexable == Len(hdr) > 280

\* dict.get on a table given as a function
Get(table, key) == IF key \in DOMAIN table THEN <<table[key]>> ELSE None

ResolutionTable == 0 :> 2 @@ 1 :> 4 @@ 2 :> 8

AxesTable == 0 :> 3 @@ 1 :> 1

StartConditionTable == 0 :> "Trigger" @@ 1 :> "Immediately" @@ 2 :> "Set Time"

StopConditionTable ==
    0 :> "Memory Full" @@ 3 :> "Low Battery" @@ 64 :> "USB"
    @@ 128 :> "Programmed Time"

\* the calendar fields (year, month, day, hour, minute, second) of six bytes
\* are out of range
OutOfRange(d) ==
    \/ d[2] = 0 \/ d[2] > 12
    \/ d[3] = 0 \/ d[3] > DaysInMonth(d[1], d[2])
    \/ d[4] >= 24 \/ d[5] >= 60 \/ d[6] >= 60

StartFields ==
    <<H(hdr, 261) + 2000, H(hdr, 260), H(hdr, 259),
      H(hdr, 256), H(hdr, 257), H(hdr, 258)>>

StopFields ==
    <<H(hdr, 267) + 2000, H(hdr, 266), H(hdr, 265),
      H(hdr, 262), H(hdr, 263), H(hdr, 264)>>

\* C15: for every value 0..255 of the resolution byte (bit-depth flag
\* removed), the axes byte, the start-condition byte and the stop-condition
\* byte, extract_metadata returns (the dates being valid): a mapped code
\* gives its table value, every other code a null field.
C15_LookupsAreLenient ==
    (Extracted /\ Indexable /\ ~OutOfRange(StartFields) /\ ~OutOfRange(StopFields))
    =>  /\ pc = "returned"
        /\ metadata.resolution = Get(ResolutionTable, H(hdr, 38) % 128)
        /\ metadata.axes = Get(AxesTable, H(hdr, 280))
        /\ metadata.start_condition = Get(StartConditionTable, H(hdr, 268))
        /\ metadata.stop_condition = Get(StopConditionTable, H(hdr, 275))

\* all four bytes are 1: mapped for resolution, axes and start condition,
\* unmapped for the stop condition
C15_Witness ==
    /\ Extracted
    /\ pc = "returned"
    /\ \A o \in LookupOffsets : H(hdr, o) = 1
    /\ metadata.resolution = <<4>>
    /\ metadata.axes = <<1>>
    /\ metadata.start_condition = <<"Immediately">>
    /\ metadata.stop_condition = None

\* C16: with an out-of-range calendar field among the six start bytes or
\* the six stop bytes, extract_metadata fails with ValueError and returns no
\* Meta; otherwise start and stop are (year+2000, month, day, hour, minute,
\* second) and duration is stop - start, negative or not.
C16_DatesAndDuration ==
    (Extracted /\ Indexable) =>
        IF OutOfRange(StartFields) \/ OutOfRange(StopFields)
        THEN pc = "ValueError_date" /\ metadata = NoMeta
        ELSE /\ pc = "returned"
             /\ metadata.start_datetime = StartFields
             /\ metadata.stop_datetime = StopFields
             /\ LET dur == metadata.duration
                    carry == Ordinal(StopFields) - Ordinal(StartFields) - dur.days
                IN  /\ dur.seconds \in 0..86399
                    /\ carry \in {0, 1}
                    /\ dur.seconds - carry * 86400
                          = SecondOfDay(StopFields) - SecondOfDay(StartFields)

\* a start after the stop, later in the day: the duration is negative
C16_Witness ==
    /\ Extracted
    /\ pc = "returned"
    /\ metadata.duration.days < 0
    /\ metadata.duration.seconds > 0
    /\ SecondOfDay(StartFields) > SecondOfDay(StopFields)

\* the positions 1..8 of the non-zero bytes of the file code field
NonZeroAt == {k \in 1..8 : FileCodeBytes(hdr)[k] # 0}

\* the j-th of them
NthNonZero(j) ==
    CHOOSE k \in NonZeroAt : Cardinality({m \in NonZeroAt : m < k}) = j - 1

\* C17: file_code is the non-zero bytes of header bytes 512..519 in their
\* order: as long as there are non-zero bytes among the 8, a zero byte
\* ending nothing.
C17_ZeroBytesDropped ==
    (Extracted /\ pc = "returned" /\ Len(hdr) >= RequiredHeaderLength) =>
        /\ Len(metadata.file_code) = Cardinality(NonZeroAt)
        /\ \A j \in 1..Len(metadata.file_code) :
              metadata.file_code[j] = FileCodeBytes(hdr)[NthNonZero(j)]

\* a field with zero bytes before, between and after its characters
C17_Witness ==
    /\ Extracted
    /\ pc = "returned"
    /\ FileCodeBytes(hdr) = <<0, 65, 0, 200, 65, 0, 0, 0>>
    /\ metadata.file_code = <<65, 200, 65>>

(***************************************************************************)
(* Properties of ActivpalData (SpecData).                                  *)
(***************************************************************************)
\* the decoded rows (signals, as load_activpal_data returned it) in g
DecodedAxis(c) == MapRuns(signals, LAMBDA v : v[AxisNo(c)] - 127)

DecodedRss ==
    MapRuns(signals,
            LAMBDA v : [radicand |-> (v[1] - 127) * (v[1] - 127)
                                     + (v[2] - 127) * (v[2] - 127)
                                     + (v[3] - 127) * (v[3] - 127)])

\* the index as __init__ built it, whatever a caller wrote into its array
IndexBuilt == [self._signals.index EXCEPT !.set = << >>]

\* what accessor a returned when first read
Decoded(a) ==
    IF a = "rss" THEN DecodedRss
    ELSE IF a = "timestamps" THEN IndexBuilt
    ELSE DecodedAxis(a)

\* the value accessor a handed out last, not written into since
Fresh(a) == held[a] # << >> /\ ~held[a][1].written

\* C12: whatever the caller wrote into the values the accessors signals,
\* x, y, z, rss and timestamps handed out, every read of x, y, z, rss and
\* timestamps returns the values decoded, and the frame keeps the decoded
\* rows and index: no write of the caller reaches the object.
C12_AccessorsReturnCopies ==
    self.built =>
        /\ \A a \in Accessors \ {"signals"} :
              Fresh(a) => held[a][1].value = Decoded(a)
        /\ self._signals.xyz = data_g(signals)
        /\ self._signals.index.set = << >>

\* C13: the magnitude channel is computed at most once, on the first rss
\* read, and kept; every rss read returns, for each row, the root of the
\* sum of the squares of the row's x, y and z.
C13_RssComputedOnce ==
    /\ sqrt_calls <= 1
    /\ self.built =>
          /\ sqrt_calls = (IF "rss" \in columns(self._signals) THEN 1 ELSE 0)
          /\ held["rss"] # << >> => sqrt_calls = 1
          /\ "rss" \in columns(self._signals) =>
                self._signals.rss[1] = DecodedRss
          /\ Fresh("rss") =>
                /\ NRows(held["rss"][1].value) = NRows(signals)
                /\ \A k \in 0..(NRows(signals) - 1) :
                      LET g == At(signals, k)
                      IN  At(held["rss"][1].value, k).radicand =
                              (g[1] - 127) * (g[1] - 127)
                              + (g[2] - 127) * (g[2] - 127)
                              + (g[3] - 127) * (g[3] - 127)

\* rss alone has been read, written into and read again, of a recording with
\* several rows
C13_Witness ==
    /\ self.built
    /\ reread
    /\ sqrt_calls = 1
    /\ Fresh("rss")
    /\ \A a \in Accessors \ {"rss"} : held[a] = << >>
    /\ NRows(held["rss"][1].value) > 1

\* ticks of the index's unit in a second
PerSecond(unit) ==
    IF unit = "ms" THEN 1000 ELSE IF unit = "us" THEN 1000000 ELSE 1000000000

\* ActivpalData(file_path) has ended after decoding the body
Constructed ==
    call.fn = "ActivpalData" /\ pc \in {"ready", "NameError", "ValueError_interval"}

\* C14: for a recording with sample rate hz > 0 the object is built with as
\* many timestamps as decoded rows, row k having the timestamp
\* start_datetime + k * (1000 / hz) ms.
C14_TimestampsEvenlySpaced ==
    (Constructed /\ metadata.hz > 0) =>
        /\ self.built
        /\ self._signals.index.periods = NRows(signals)
        /\ self._signals.index.periods = NRows(self._signals.xyz)
        /\ self._signals.index.start = metadata.start_datetime
        /\ \A k \in 0..(NRows(signals) - 1) :
              TimestampAt(IndexBuilt, k) * metadata.hz
                  = k * PerSecond(IndexBuilt.unit)

(***************************************************************************)
(* Properties of the order of the decoder's rules (Spec).                  *)
(***************************************************************************)
\* the 8 bytes of a .dat body at offset i are inside it and are the tail
\* pattern 0, 0, >0, 0, 0, >0, >0, 0
DatTailAhead ==
    /\ ~datx
    /\ i + 7 < length
    /\ body[i + 1] = 0 /\ body[i + 2] = 0 /\ body[i + 3] > 0
    /\ body[i + 4] = 0 /\ body[i + 5] = 0
    /\ body[i + 6] > 0 /\ body[i + 7] > 0 /\ body[i + 8] = 0

\* C18: the tail test comes first: in a .dat body a group (0,0,z>0) followed
\* by 0,0,>0,>0,0 ends decoding with the rows produced so far and is not
\* expanded as a run, and after the decoder has returned no group adds a row.
C18_TailBeforeCompression ==
    [][/\ (pc = "loop" /\ DatTailAhead) =>
              /\ pc' = "returned"
              /\ row' = row
              /\ i' = i
              /\ signals' = TakeRows(signals, row)
              /\ NRows(signals') = row
       /\ pc = "returned" => (row' = row /\ signals' = signals /\ pc' = pc)]_vars

\* a .dat body decoded to the three rows before its tail pattern, bytes of
\* the body left over
C18_Witness ==
    /\ pc = "returned"
    /\ DatTailAhead
    /\ row = 3
    /\ NRows(signals) = 3
    /\ i + 8 < length

\* C19: every group that is not a tail adds at least one row: the step of
\* a whole group that does not end decoding at a tail goes on to the next
\* group with a higher row count, whatever the group and the firmware.
C19_EveryGroupAddsRows ==
    [][(pc = "loop" /\ i + 2 < length /\ pc' # "returned")
          => (pc' = "loop" /\ row' > row)]_vars

\* C20: the offset i moves only forward, by 3 per group; a group adds at
\* most 256 rows; decoding ends only by returning, at a tail or at the
\* end of the body.
C20_ForwardOnly ==
    [][pc = "loop" =>
          /\ pc' = "loop" => (i < length /\ i' = i + 3 /\ row' <= row + 256)
          /\ pc' # "loop" =>
                /\ pc' = "returned"
                /\ i' = i
                /\ i >= length \/ NRows(signals') = row]_vars

(***************************************************************************)
(* SpecRace: two callers of change_file_code on one path.  The function    *)
(* takes no lock.  A call checks its arguments, opens the file 'r+b',      *)
(* seeks to 512 and hands its 8 bytes to the buffered file object; leaving *)
(* the with block flushes them.  The flush is a loop of write(2) calls,    *)
(* each of which may write only a part of what is left, so that the bytes  *)
(* of one call reach the file in one or more pieces.  The callers either   *)
(* serialize their calls (race.serial) or do not.                          *)
(***************************************************************************)
Writers == {1, 2}

RacePath == <<"a", ".", "d", "a", "t", "x">>

\* file codes: "A", "ABCDEFGH", "ABCDEFGHI"
RaceCodes ==
    { <<65>>, <<65, 66, 67, 68, 69, 70, 71, 72>>,
      <<65, 66, 67, 68, 69, 70, 71, 72, 73>> }

NotCalled == [pc |-> "idle", code |-> << >>, buffer |-> << >>, done |-> 0]

\* the file after a write(2) of the n bytes of buffer that follow the first
\* done ones, every write restarting at offset 512
Flushed_FromStart(data, buffer, done, n) ==
    WriteAt(data, 512, SubSeq(buffer, done + 1, done + n))

\* the file after a write(2) of the n bytes of buffer that follow the first
\* done ones: the file position has advanced by done from the seek to 512
Flushed(data, buffer, done, n) ==
    WriteAt(data, 512 + done, SubSeq(buffer, done + 1, done + n))

\* change_file_code up to f.write(new_bytes): the checks, open, seek, and
\* the bytes put in the buffer of f
EnterChangeFileCode(w) ==
    /\ writers[w].pc = "idle"
    /\ race.serial => \A v \in Writers : writers[v].pc # "open"
    /\ \E new_code \in RaceCodes :
         LET res == ChangeResult(RacePath, new_code)
         IN  writers' = [writers EXCEPT ![w] =
                 IF res = "None"
                 THEN [pc |-> "open", code |-> new_code,
                       buffer |-> new_bytes(new_code), done |-> 0]
                 ELSE [pc |-> res, code |-> new_code,
                       buffer |-> << >>, done |-> 0]]
    /\ race' = [race EXCEPT !.order = Append(@, w)]
    /\ UNCHANGED <<body, firmware, datx, i, row, signals, oob_read, pc, call,
                   fs, file_content, metadata, hdr, self, held, sqrt_calls,
                   reread, file_meta, csvfs, saves, peak, xlim, plot>>

\* the end of the with block: one write(2) of the flush; the call returns
\* when the last byte is written
FlushChangeFileCode(w) ==
    /\ writers[w].pc = "open"
    /\ \E n \in 1..(Len(writers[w].buffer) - writers[w].done) :
         /\ fs' = [fs EXCEPT ![RacePath] =
                     File(Flushed(fs[RacePath].data, writers[w].buffer,
                                  writers[w].done, n))]
         /\ writers' = [writers EXCEPT ![w] =
                 [@ EXCEPT !.done = @ + n,
                           !.pc = IF writers[w].done + n = Len(writers[w].buffer)
                                  THEN "closed" ELSE "open"]]
    /\ UNCHANGED <<body, firmware, datx, i, row, signals, oob_read, pc, call,
                   file_content, metadata, hdr, self, held, sqrt_calls,
                   reread, file_meta, race, csvfs, saves, peak, xlim, plot>>

InitRace ==
    /\ \E c \in {File(BaseHeader), File(HeaderBytes(515, 218, 1, OldCode)),
                 Absent} :
         fs = [q \in Paths |-> IF q = RacePath THEN c ELSE Absent]
    /\ writers = [w \in Writers |-> NotCalled]
    /\ race \in [serial : BOOLEAN, order : {<< >>}]
    /\ pc = "idle"
    /\ call = NoCall
    /\ body = << >>
    /\ firmware = 0
    /\ datx = FALSE
    /\ i = 0
    /\ row = 0
    /\ signals = << >>
    /\ oob_read = FALSE
    /\ file_content = NotRead
    /\ metadata = NoMeta
    /\ hdr = << >>
    /\ self = NoObject
    /\ held = NothingHeld
    /\ sqrt_calls = 0
    /\ reread = FALSE
    /\ file_meta = NotExtracted
    /\ csvfs = << >>
    /\ saves = << >>
    /\ peak = [called |-> FALSE]
    /\ xlim = <<0, 0>>
    /\ plot = [loaded |-> FALSE]

NextRace ==
    \/ \E w \in Writers : EnterChangeFileCode(w)
    \/ \E w \in Writers : FlushChangeFileCode(w)

SpecRace == InitRace /\ [][NextRace]_vars

(***************************************************************************)
(* C21.  Two change_file_code calls on the same path, both returned: when  *)
(* the caller serialized them the 8-byte field at offset 512 is the code   *)
(* of the call made later, padded with NUL to 8 bytes; in any case every   *)
(* byte of the field is the byte one of the two padded codes has at that   *)
(* offset.  Not serialized, the field can end torn (C21_TornField): bytes  *)
(* of both codes, equal to neither.                                        *)
(***************************************************************************)
BothReturned == writers # << >> /\ \A w \in Writers : writers[w].pc = "closed"

\* the bytes at offsets 512..519 of the file
Field == SubSeq(fs[RacePath].data, 513, 520)

Padded(w) == Ljust(writers[w].code, 8)

\* the caller who called last
Later == race.order[Len(race.order)]

C21_SerializedLastWins ==
    BothReturned =>
        /\ race.serial => Field = Padded(Later)
        /\ \A k \in 1..8 : \E w \in Writers : Field[k] = Padded(w)[k]

C21_TornField ==
    /\ BothReturned
    /\ ~race.serial
    /\ \A w \in Writers : Field # Padded(w)
    /\ \A w \in Writers : \E k \in 1..8 :
          /\ Field[k] = Padded(w)[k]
          /\ \A v \in Writers \ {w} : Field[k] # Padded(v)[k]

(***************************************************************************)
(* gui.raw_marker: MainWindow.save.  A text file is the sequence of its    *)
(* characters; a str is the sequence of its characters.                    *)
(***************************************************************************)
\* 'File,Sample,DateTime,Confidence\n'
HeaderLine ==
    <<"F", "i", "l", "e", ",", "S", "a", "m", "p", "l", "e", ",", "D", "a",
      "t", "e", "T", "i", "m", "e", ",", "C", "o", "n", "f", "i", "d", "e",
      "n", "c", "e", "\n">>

\* 'Unknown File'
UnknownFile ==
    <<"U", "n", "k", "n", "o", "w", "n", " ", "F", "i", "l", "e">>

\* 'Could not get sample number'
NoSampleNumber ==
    <<"C", "o", "u", "l", "d", " ", "n", "o", "t", " ", "g", "e", "t", " ",
      "s", "a", "m", "p", "l", "e", " ", "n", "u", "m", "b", "e", "r">>

\* 'Could not get datetime'
NoDatetime ==
    <<"C", "o", "u", "l", "d", " ", "n", "o", "t", " ", "g", "e", "t", " ",
      "d", "a", "t", "e", "t", "i", "m", "e">>

\* 'NaN'
NaN == <<"N", "a", "N">>

\* str(None)
StrNone == <<"N", "o", "n", "e">>

Digit(d) ==
    CASE d = 0 -> "0" [] d = 1 -> "1" [] d = 2 -> "2" [] d = 3 -> "3"
      [] d = 4 -> "4" [] d = 5 -> "5" [] d = 6 -> "6" [] d = 7 -> "7"
      [] d = 8 -> "8" [] d = 9 -> "9"

\* str(n) of an int n >= 0
RECURSIVE StrInt(_)
StrInt(n) == IF n < 10 THEN <<Digit(n)>> ELSE StrInt(n \div 10) \o <<Digit(n % 10)>>

\* n in decimal, zero-filled to w digits
RECURSIVE ZFill(_, _)
ZFill(n, w) == IF w = 0 THEN << >> ELSE ZFill(n \div 10, w - 1) \o <<Digit(n % 10)>>

\* str(Timestamp): 'YYYY-MM-DD HH:MM:SS', followed by '.ffffff' when the
\* microsecond is not zero
StrTimestamp(t) ==
    ZFill(t.year, 4) \o <<"-">> \o ZFill(t.month, 2) \o <<"-">>
    \o ZFill(t.day, 2) \o <<" ">> \o ZFill(t.hour, 2) \o <<":">>
    \o ZFill(t.minute, 2) \o <<":">> \o ZFill(t.second, 2)
    \o (IF t.microsecond = 0 THEN << >>
        ELSE <<".">> \o ZFill(t.microsecond, 6))

\* An attribute of the window: not set (reading it raises AttributeError),
\* or set to a value, which may be None.
Unset == [set |-> FALSE]

Attr(v) == [set |-> TRUE, value |-> v]

\* the values of the attributes: None, an int, a Timestamp
PyNone == [type |-> "NoneType"]

PyInt(n) == [type |-> "int", value |-> n]

Timestamp(Y, M, D, h, m, s, us) ==
    [type |-> "Timestamp", year |-> Y, month |-> M, day |-> D, hour |-> h,
     minute |-> m, second |-> s, microsecond |-> us]

\* str(v) of an attribute value
Str(v) ==
    IF v.type = "NoneType" THEN StrNone
    ELSE IF v.type = "int" THEN StrInt(v.value)
    ELSE StrTimestamp(v)

\* try: f.write(str(attribute)) except AttributeError: f.write(fallback)
Written_Or(a, fallback) == IF a.set THEN Str(a.value) ELSE fallback

\* what the second with block of save writes
MarkRow(file_path, marked_sample, marked_datetime, confidence) ==
    file_path \o <<",">> \o Written_Or(marked_sample, NoSampleNumber)
    \o <<",">> \o Written_Or(marked_datetime, NoDatetime)
    \o <<",">> \o Written_Or(confidence, NaN) \o <<"\n">>

\* the paths the save dialog returns: m.csv, the directory d, and '' when
\* the dialog is cancelled
MarkFile == <<"m", ".", "c", "s", "v">>

SavePaths == {MarkFile, <<"d">>, << >>}

\* the marks of the plot: never marked, cleared (clear_markers sets both to
\* None), sample 12 of a 20 Hz recording, sample 0
Marks ==
    { [marked_sample |-> Unset, marked_datetime |-> Unset],
      [marked_sample |-> Attr(PyNone), marked_datetime |-> Attr(PyNone)],
      [marked_sample |-> Attr(PyInt(12)),
       marked_datetime |-> Attr(Timestamp(2017, 1, 2, 3, 4, 5, 600000))],
      [marked_sample |-> Attr(PyInt(0)),
       marked_datetime |-> Attr(Timestamp(2017, 1, 2, 3, 4, 5, 0))] }

\* the confidence of the window: never asked (request_confidence is False),
\* or the value of the 1..10 slider
Confidences == {Unset, Attr(PyInt(1)), Attr(PyInt(10))}

\* the number of saves of a run
MaxSaves == 3

\* os.path.isfile on the mark files
csv_isfile(p) == p \in DOMAIN csvfs /\ csvfs[p].kind = "file"

\* the header is written whether the file exists or not
NeedsHeader_Always(save_file_path) == TRUE

\* if not os.path.isfile(save_file_path)
NeedsHeader(save_file_path) == ~csv_isfile(save_file_path)

\* How open(save_file_path, 'w' or 'a') ends: '' is no path, a directory
\* cannot be opened for writing.
OpenResult(save_file_path) ==
    IF save_file_path = << >> THEN "FileNotFoundError"
    ELSE IF csvfs[save_file_path].kind = "dir" THEN "IsADirectoryError"
    ELSE "None"

\* MainWindow.save; the exception of a failed open is not caught
Save ==
    /\ pc = "idle"
    /\ Len(saves.log) < MaxSaves
    /\ \E save_file_path \in SavePaths, m \in Marks, confidence \in Confidences :
         LET res == OpenResult(save_file_path)
             mark_row == MarkRow(RacePath, m.marked_sample,
                                 m.marked_datetime, confidence)
             old == IF NeedsHeader(save_file_path) THEN HeaderLine
                    ELSE csvfs[save_file_path].data
         IN  IF res # "None"
             THEN pc' = res /\ UNCHANGED <<csvfs, saves>>
             ELSE /\ csvfs' = [csvfs EXCEPT ![save_file_path] =
                                  File(old \o mark_row)]
                  /\ saves' = [saves EXCEPT !.log =
                                  Append(@, [path |-> save_file_path,
                                             row |-> mark_row])]
                  /\ pc' = "idle"
    /\ UNCHANGED <<body, firmware, datx, i, row, signals, oob_read, call,
                   fs, file_content, metadata, hdr, self, held, sqrt_calls,
                   reread, file_meta, writers, race, peak, xlim, plot>>

\* what the mark file is before the first save: absent, empty, a file this
\* program wrote, text whose last line has no newline, text without header
MarkFilesBefore ==
    { Absent, File(<< >>),
      File(HeaderLine
           \o MarkRow(RacePath, Attr(PyInt(3)), Attr(PyNone), Attr(PyInt(5)))),
      File(<<"x", ",", "1">>),
      File(<<"x", ",", "1", "\n">>) }

InitSave ==
    /\ \E c \in MarkFilesBefore :
         csvfs = [q \in SavePaths \ {<< >>} |->
                     IF q = MarkFile THEN c ELSE Directory]
    /\ saves = [before |-> csvfs, log |-> << >>]
    /\ pc = "idle"
    /\ call = NoCall
    /\ fs = [p \in {} |-> Absent]
    /\ body = << >>
    /\ firmware = 0
    /\ datx = FALSE
    /\ i = 0
    /\ row = 0
    /\ signals = << >>
    /\ oob_read = FALSE
    /\ file_content = NotRead
    /\ metadata = NoMeta
    /\ hdr = << >>
    /\ self = NoObject
    /\ held = NothingHeld
    /\ sqrt_calls = 0
    /\ reread = FALSE
    /\ file_meta = NotExtracted
    /\ writers = << >>
    /\ race = [serial |-> TRUE, order |-> << >>]
    /\ peak = [called |-> FALSE]
    /\ xlim = <<0, 0>>
    /\ plot = [loaded |-> FALSE]

NextSave == Save

SpecSave == InitSave /\ [][NextSave]_vars

(***************************************************************************)
(* C22.  The rows of a text are its lines: the pieces between newlines,    *)
(* the last one with or without a newline after it.                        *)
(***************************************************************************)
\* where the lines of text start
LineStarts(text) ==
    {k \in 1..Len(text) : k = 1 \/ text[k - 1] = "\n"}

\* the line of text that starts at k, without its newline
LineAt(text, k) ==
    LET ends == {e \in k..Len(text) : text[e] = "\n"}
        stop == IF ends = {} THEN Len(text) + 1
                ELSE CHOOSE e \in ends : \A f \in ends : e <= f
    IN  SubSeq(text, k, stop - 1)

CsvRows(text) ==
    LET starts == LineStarts(text)
    IN  [n \in 1..Cardinality(starts) |->
            LineAt(text,
                   CHOOSE k \in starts :
                       Cardinality({j \in starts : j < k}) = n - 1)]

\* the rows of the completed saves to MarkFile, in save order
RECURSIVE SavedRows(_)
SavedRows(log) ==
    IF log = << >> THEN << >>
    ELSE IF Head(log).path = MarkFile
    THEN <<SubSeq(Head(log).row, 1, Len(Head(log).row) - 1)>>
         \o SavedRows(Tail(log))
    ELSE SavedRows(Tail(log))

\* the characters of the completed saves to MarkFile, in save order
RECURSIVE SavedText(_)
SavedText(log) ==
    IF log = << >> THEN << >>
    ELSE (IF Head(log).path = MarkFile THEN Head(log).row ELSE << >>)
         \o SavedText(Tail(log))

SavedTo == saves.log # << >> /\ SavedRows(saves.log) # << >>

EndsLine(text) == text = << >> \/ text[Len(text)] = "\n"

\* C22 (as stated).  After k >= 1 completed saves to a path that did not
\* exist, the file is the header row followed by the k mark rows in save
\* order; saves to a file that existed write no header and leave its rows
\* as they were, the k mark rows after them.
C22_HeaderOnceRowsKept ==
    SavedTo =>
        IF saves.before[MarkFile].kind = "absent"
        THEN CsvRows(csvfs[MarkFile].data)
                 = CsvRows(HeaderLine) \o SavedRows(saves.log)
        ELSE CsvRows(csvfs[MarkFile].data)
                 = CsvRows(saves.before[MarkFile].data)
                       \o SavedRows(saves.log)

\* C22 (amended).  After k >= 1 completed saves to a path that did not
\* exist, the file is the header row followed by the k mark rows in save
\* order; saves to a file that existed write no header and leave its
\* characters as they were, the characters of the k mark rows after them, so
\* that its rows are as they were when it was empty or ended with a newline.
C22_HeaderOnceTextKept ==
    SavedTo =>
        IF saves.before[MarkFile].kind = "absent"
        THEN CsvRows(csvfs[MarkFile].data)
                 = CsvRows(HeaderLine) \o SavedRows(saves.log)
        ELSE /\ csvfs[MarkFile].data
                    = saves.before[MarkFile].data \o SavedText(saves.log)
             /\ EndsLine(saves.before[MarkFile].data) =>
                    CsvRows(csvfs[MarkFile].data)
                        = CsvRows(saves.before[MarkFile].data)
                              \o SavedRows(saves.log)

\* two saves to a path that did not exist, then a third
C22_Witness ==
    /\ saves # << >>
    /\ Len(SavedRows(saves.log)) = 3
    /\ saves.before[MarkFile].kind = "absent"
    /\ Len(CsvRows(csvfs[MarkFile].data)) = 4

(***************************************************************************)
(* gui.raw_marker: UIFileMarkingPlot.get_nearest_peak.  An array is its    *)
(* length and its samples in hundredths of a g, indexed from 0; only the   *)
(* samples that are not 0 are kept (at).                                   *)
(***************************************************************************)
zone_width == 1200

Array(n, at) == [len |-> n, at |-> at]

\* input_array[k]
Sample(a, k) == IF k \in DOMAIN a.at THEN a.at[k] ELSE 0

zone_start(sample_number) ==
    IF sample_number - zone_width < 0 THEN 0 ELSE sample_number - zone_width

zone_end(input_array, sample_number) ==
    IF sample_number + zone_width > input_array.len THEN input_array.len
    ELSE sample_number + zone_width

\* numpy.take(..., mode='clip') of an index into a[lo:hi]
Clip(k, lo, hi) == IF k < lo THEN lo ELSE IF k > hi - 1 THEN hi - 1 ELSE k

\* argrelmax with order 1 whatever the order asked for
argrelmax_Order1(a, lo, hi, order) ==
    {j \in lo..(hi - 1) :
        /\ Sample(a, j) > Sample(a, Clip(j + 1, lo, hi))
        /\ Sample(a, j) > Sample(a, Clip(j - 1, lo, hi))}

\* scipy.signal.argrelmax(a[lo:hi], order)[0] + lo: the samples greater than
\* those at every shift 1..order to either side, the shifted index clipped
\* to the slice
argrelmax(a, lo, hi, order) ==
    {j \in lo..(hi - 1) :
        \A shift \in 1..order :
            /\ Sample(a, j) > Sample(a, Clip(j + shift, lo, hi))
            /\ Sample(a, j) > Sample(a, Clip(j - shift, lo, hi))}

\* the values of a[lo:hi]
ZoneValues(a, lo, hi) ==
    {a.at[k] : k \in DOMAIN a.at \cap lo..(hi - 1)}
    \cup (IF \E k \in lo..(hi - 1) : k \notin DOMAIN a.at THEN {0} ELSE {})

\* numpy.ptp(a[lo:hi])
ptp(a, lo, hi) ==
    LET vs == ZoneValues(a, lo, hi)
    IN  (CHOOSE v \in vs : \A u \in vs : u <= v)
        - (CHOOSE v \in vs : \A u \in vs : v <= u)

Abs(n) == IF n < 0 THEN 0 - n ELSE n

\* peaks[numpy.argmin(numpy.abs(peaks - sample_number))]: the first of the
\* nearest, peaks being in increasing order
Nearest(peaks, sample_number) ==
    CHOOSE q \in peaks :
        \A r \in peaks :
            \/ Abs(q - sample_number) < Abs(r - sample_number)
            \/ Abs(q - sample_number) = Abs(r - sample_number) /\ q <= r

\* 0.25 g in hundredths
MinSwing == 25

get_nearest_peak(input_array, sample_number) ==
    LET lo == zone_start(sample_number)
        hi == zone_end(input_array, sample_number)
        peaks == argrelmax(input_array, lo, hi, 3)
    IN  IF peaks # {} /\ ptp(input_array, lo, hi) > MinSwing
        THEN Nearest(peaks, sample_number)
        ELSE sample_number

\* the longest of the short arrays
MaxShort == 5

\* every array of 1..MaxShort samples of 0, 0.2 g and 0.3 g
ShortArrays ==
    { Array(n, [k \in {j \in 0..(n - 1) : f[j] # 0} |-> f[k]]) :
        n \in {m \in 1..MaxShort : TRUE},
        f \in [0..(MaxShort - 1) -> {0, 20, 30}] }

\* arrays longer than the zone on both sides of its middle
LongLen == 2 * zone_width + 100

\* where the long arrays may have a spike: next to the ends of the array,
\* and, for the sample LongLen \div 2, at and next to the ends of its zone
SpikeAt ==
    { 1, LongLen \div 2 - zone_width, LongLen \div 2 - zone_width + 2,
      LongLen \div 2 + 3, LongLen \div 2 + zone_width - 1,
      LongLen \div 2 + zone_width, LongLen - 2 }

LongArrays ==
    { Array(LongLen, [k \in at |-> v]) : at \in SUBSET SpikeAt, v \in {20, 30} }

LongSamples == {0, LongLen \div 2, LongLen \div 2 + 1, LongLen - 1}

GetNearestPeak ==
    /\ ~peak.called
    /\ peak' = [peak EXCEPT
                   !.called = TRUE,
                   !.result = get_nearest_peak(peak.input_array,
                                               peak.sample_number)]
    /\ UNCHANGED <<body, firmware, datx, i, row, signals, oob_read, pc, call,
                   fs, file_content, metadata, hdr, self, held, sqrt_calls,
                   reread, file_meta, writers, race, csvfs, saves, xlim,
                   plot>>

InitPeak ==
    /\ \/ \E a \in ShortArrays, sn \in 0..(MaxShort - 1) :
             /\ sn < a.len
             /\ peak = [called |-> FALSE, input_array |-> a,
                        sample_number |-> sn, result |-> sn]
       \/ \E a \in LongArrays, sn \in LongSamples :
             peak = [called |-> FALSE, input_array |-> a,
                     sample_number |-> sn, result |-> sn]
    /\ pc = "idle"
    /\ call = NoCall
    /\ fs = [p \in {} |-> Absent]
    /\ body = << >>
    /\ firmware = 0
    /\ datx = FALSE
    /\ i = 0
    /\ row = 0
    /\ signals = << >>
    /\ oob_read = FALSE
    /\ file_content = NotRead
    /\ metadata = NoMeta
    /\ hdr = << >>
    /\ self = NoObject
    /\ held = NothingHeld
    /\ sqrt_calls = 0
    /\ reread = FALSE
    /\ file_meta = NotExtracted
    /\ writers = << >>
    /\ race = [serial |-> TRUE, order |-> << >>]
    /\ csvfs = << >>
    /\ saves = << >>
    /\ xlim = <<0, 0>>
    /\ plot = [loaded |-> FALSE]

NextPeak == GetNearestPeak

SpecPeak == InitPeak /\ [][NextPeak]_vars

(***************************************************************************)
(* C23.                                                                    *)
(***************************************************************************)
PeakReturned == peak.called

\* the samples within 1200 of sn, clipped to the array
Within1200 ==
    {k \in 0..(peak.input_array.len - 1) :
        Abs(k - peak.sample_number) <= zone_width}

\* the samples sn - 1200 <= k < sn + 1200, clipped to the array
Searched ==
    {k \in 0..(peak.input_array.len - 1) :
        /\ peak.sample_number - zone_width <= k
        /\ k < peak.sample_number + zone_width}

\* the samples of W greater than both their neighbours, which are in W
LocalMaxima(W) ==
    {k \in W :
        /\ k - 1 \in W /\ Sample(peak.input_array, k - 1) < Sample(peak.input_array, k)
        /\ k + 1 \in W /\ Sample(peak.input_array, k + 1) < Sample(peak.input_array, k)}

\* the samples of W, not its first or last, greater than every sample of W
\* up to 3 places to either side
Peaks3(W) ==
    {k \in W :
        /\ k - 1 \in W
        /\ k + 1 \in W
        /\ \A j \in ((k - 3)..(k + 3) \ {k}) \cap W :
              Sample(peak.input_array, j) < Sample(peak.input_array, k)}

Swing(W) ==
    LET vs == {Sample(peak.input_array, k) : k \in W}
    IN  (CHOOSE v \in vs : \A u \in vs : u <= v)
        - (CHOOSE v \in vs : \A u \in vs : v <= u)

ValidNear ==
    /\ peak.result \in 0..(peak.input_array.len - 1)
    /\ Abs(peak.result - peak.sample_number) <= zone_width

\* C23 (as stated).  The result is a local maximum of the window of the
\* samples within 1200 of sn, none nearer to sn, when the window has a local
\* maximum and its max minus min exceeds 0.25; it is sn otherwise; it is a
\* valid index at distance at most 1200 from sn.
C23_NearestLocalMaximum ==
    PeakReturned =>
        LET W == Within1200
            M == LocalMaxima(W)
        IN  /\ IF M # {} /\ Swing(W) > MinSwing
               THEN /\ peak.result \in M
                    /\ \A k \in M : Abs(peak.result - peak.sample_number)
                                       <= Abs(k - peak.sample_number)
               ELSE peak.result = peak.sample_number
            /\ ValidNear

\* C23 (amended).  The window is the samples sn - 1200 <= k < sn + 1200 of
\* the array.  The result is a sample of the window, not its first or last,
\* that is greater than every sample of the window up to 3 places to either
\* side of it, none nearer to sn and of two equally near the lower, when the
\* window has such a sample and its max minus min exceeds 0.25; it is sn
\* otherwise; it is a valid index at distance at most 1200 from sn.
C23_NearestOrder3Peak ==
    PeakReturned =>
        LET W == Searched
            M == Peaks3(W)
        IN  /\ IF M # {} /\ Swing(W) > MinSwing
               THEN /\ peak.result \in M
                    /\ \A k \in M :
                          \/ Abs(peak.result - peak.sample_number)
                                 < Abs(k - peak.sample_number)
                          \/ /\ Abs(peak.result - peak.sample_number)
                                    = Abs(k - peak.sample_number)
                             /\ peak.result <= k
               ELSE peak.result = peak.sample_number
            /\ ValidNear

\* a peak found in a window clipped at neither end
C23_Witness ==
    /\ peak.called
    /\ peak.result # peak.sample_number
    /\ peak.sample_number - zone_width > 0
    /\ peak.sample_number + zone_width < peak.input_array.len

(***************************************************************************)
(* gui.raw_viewer: UIFilePlot.basic_zoom, _keyboard_zoom, basic_pan and    *)
(* _keyboard_pan on the x-limits of the axes.                              *)
(*                                                                         *)
(* The limits are doubles, in days.  The date numbers of a recording lie   *)
(* between 2^19 and 2^20 days, where consecutive doubles are 2^-33 day     *)
(* apart: a limit is kept as its whole number of such steps from a date    *)
(* number that is an even number of steps.  A sum or difference that gives *)
(* a limit is rounded to the nearest step.  Widths and distances are some  *)
(* 2^-20 day and carry 2^-72 day of rounding error, which is left out:     *)
(* they are exact fractions of a step, except that a sum that falls        *)
(* exactly halfway between two steps may round either way when the width   *)
(* or distance in it was itself rounded, and rounds to the even step when  *)
(* it was exact.                                                           *)
(***************************************************************************)
Frac(n, d) == [num |-> n, den |-> d]

\* the steps of one day are 2^33, those of 1/86400 day 2^26/675
StepsPerSecond == Frac(67108864, 675)

\* 1 / (86400 * self.data.metadata.hz), in steps
min_xrange(hz) == Frac(StepsPerSecond.num, StepsPerSecond.den * hz)

\* n * f > m for a whole number n and fractions f, m with positive terms
\* (n * f.num is whole, so it exceeds a fraction iff it exceeds its floor)
Exceeds(n, f, m) == n * f.num > (m.num * f.den) \div m.den

\* num / den rounded to the nearest whole number, halfway cases to the even
RoundEven(num, den) ==
    LET q == num \div den
        r == 2 * (num % den)
    IN  IF r < den THEN q
        ELSE IF r > den THEN q + 1
        ELSE IF q % 2 = 0 THEN q ELSE q + 1

\* num / den rounded to the nearest whole number, halfway cases up or down
Rounded(num, den, up) ==
    LET q == num \div den
        r == 2 * (num % den)
    IN  IF r < den THEN q
        ELSE IF r > den THEN q + 1
        ELSE IF up THEN q + 1 ELSE q

\* cur_xlim[0] + (cur_xrange / 2)
Center(cur_xlim) ==
    RoundEven(2 * cur_xlim[1] + (cur_xlim[2] - cur_xlim[1]), 2)

\* the limits basic_zoom sets when new_xrange > min_xrange
ZoomLimits(cur_xlim, scale_factor, xhold, hz) ==
    LET cur_xrange == cur_xlim[2] - cur_xlim[1]
        hold == IF xhold = << >> THEN Center(cur_xlim) ELSE xhold[1]
        left == hold - cur_xlim[1]
    IN  { <<Rounded(hold * scale_factor.den - left * scale_factor.num,
                    scale_factor.den, a),
            Rounded(hold * scale_factor.den
                        + (cur_xrange - left) * scale_factor.num,
                    scale_factor.den, b)>> : a, b \in BOOLEAN }

\* basic_zoom(scale_factor, xhold): the limits it may leave.
\* new_left_distance is (xhold - cur_xlim[0]) / cur_xrange * new_xrange,
\* that is (xhold - cur_xlim[0]) * scale_factor; new_right_distance is the
\* rest of new_xrange.
basic_zoom(cur_xlim, scale_factor, xhold, hz) ==
    LET cur_xrange == cur_xlim[2] - cur_xlim[1]
    IN  IF Exceeds(cur_xrange, scale_factor, min_xrange(hz))
        THEN ZoomLimits(cur_xlim, scale_factor, xhold, hz)
        ELSE {cur_xlim}

\* _keyboard_zoom: the scale factor of the key, base_scale = 2
KeyScale(key) ==
    CASE key = "up" -> Frac(1, 2)
      [] key = "down" -> Frac(2, 1)
      [] key = "shift+up" -> Frac(19, 20)
      [] key = "shift+down" -> Frac(11, 10)

zoom_keys == {"up", "down", "shift+up", "shift+down"}

\* _keyboard_pan: the move factor of the key, base_scale = 0.5
KeyMove(key) ==
    CASE key = "left" -> Frac(0 - 1, 2)
      [] key = "right" -> Frac(1, 2)
      [] key = "shift+left" -> Frac(0 - 1, 20)
      [] key = "shift+right" -> Frac(1, 20)

pan_keys == {"left", "right", "shift+left", "shift+right"}

\* basic_pan(move_factor): the limits it may leave.  mv_amount is exact for
\* the move factors 0.5 and -0.5; for the others it is rounded, to just
\* above, just below or exactly the fraction, so that sums that fall
\* halfway round both up, both down, or each to the even step.
basic_pan(cur_xlim, move_factor, first, last) ==
    LET cur_xrange == cur_xlim[2] - cur_xlim[1]
        mv == cur_xrange * move_factor.num
        den == move_factor.den
        exact == { <<RoundEven(cur_xlim[1] * den + mv, den),
                     RoundEven(cur_xlim[2] * den + mv, den)>> }
        moved == IF den = 2 THEN exact
                 ELSE exact
                      \cup { <<Rounded(cur_xlim[1] * den + mv, den, up),
                               Rounded(cur_xlim[2] * den + mv, den, up)>> :
                               up \in BOOLEAN }
    IN  { IF new_xlim[2] > first /\ new_xlim[1] < last
          THEN new_xlim ELSE cur_xlim : new_xlim \in moved }

\* new_plot(center, width): the limits it sets.  Without a width, those of
\* the recording; else center - width / 2 and center + width / 2, each
\* rounded on its own (width / 2 is exact), where a missing center is
\* start_datetime + width / 2, rounded.  Widths and centers are whole
\* numbers of steps here.
new_plot(center, width, first, last) ==
    IF width = << >> THEN <<first, last>>
    ELSE LET half_win == Frac(width[1], 2)
             c == IF center = << >>
                  THEN RoundEven(2 * first + half_win.num, half_win.den)
                  ELSE center[1]
         IN  <<RoundEven(2 * c - half_win.num, half_win.den),
               RoundEven(2 * c + half_win.num, half_win.den)>>

\* the operations of a run
MaxOps == 3

\* where a key press over the axes may have the pointer (event.xdata): at
\* the left limit, or a third of the way in
Pointers(cur_xlim) ==
    { <<cur_xlim[1]>>,
      <<cur_xlim[1] + (cur_xlim[2] - cur_xlim[1]) \div 3>> }

Zoomed(new_xlim) ==
    /\ xlim' = new_xlim
    /\ plot' = [plot EXCEPT !.ops = @ + 1]
    /\ UNCHANGED <<body, firmware, datx, i, row, signals, oob_read, pc, call,
                   fs, file_content, metadata, hdr, self, held, sqrt_calls,
                   reread, file_meta, writers, race, csvfs, saves, peak>>

Panned(new_xlim) ==
    /\ xlim' = new_xlim
    /\ plot' = [plot EXCEPT !.ops = @ + 1, !.panned = TRUE]
    /\ UNCHANGED <<body, firmware, datx, i, row, signals, oob_read, pc, call,
                   fs, file_content, metadata, hdr, self, held, sqrt_calls,
                   reread, file_meta, writers, race, csvfs, saves, peak>>

\* the '+' action of the toolbar
ZoomInButton ==
    /\ plot.loaded /\ plot.ops < MaxOps
    /\ \E new_xlim \in basic_zoom(xlim, Frac(1, 2), << >>, plot.hz) :
         Zoomed(new_xlim)

\* the '-' action of the toolbar
ZoomOutButton ==
    /\ plot.loaded /\ plot.ops < MaxOps
    /\ \E new_xlim \in basic_zoom(xlim, Frac(2, 1), << >>, plot.hz) :
         Zoomed(new_xlim)

\* _keyboard_zoom(event): xdata is None when the pointer is off the axes
KeyboardZoom ==
    /\ plot.loaded /\ plot.ops < MaxOps
    /\ \E key \in zoom_keys, xdata \in {<< >>} \cup Pointers(xlim) :
         \E new_xlim \in basic_zoom(xlim, KeyScale(key), xdata, plot.hz) :
            Zoomed(new_xlim)

\* the left arrow action of the toolbar
PanLeftButton ==
    /\ plot.loaded /\ plot.ops < MaxOps
    /\ \E new_xlim \in basic_pan(xlim, Frac(0 - 1, 10), plot.first, plot.last) :
         Panned(new_xlim)

\* the right arrow action of the toolbar
PanRightButton ==
    /\ plot.loaded /\ plot.ops < MaxOps
    /\ \E new_xlim \in basic_pan(xlim, Frac(1, 10), plot.first, plot.last) :
         Panned(new_xlim)

\* _keyboard_pan(event)
KeyboardPan ==
    /\ plot.loaded /\ plot.ops < MaxOps
    /\ \E key \in pan_keys :
         \E new_xlim \in basic_pan(xlim, KeyMove(key), plot.first, plot.last) :
            Panned(new_xlim)

\* the sample rates of the recordings shown
ViewRates == {10, 20}

\* the date number of the last of n samples at hz, the first being at first
LastSample(first, n, hz) ==
    first + RoundEven((n - 1) * StepsPerSecond.num, StepsPerSecond.den * hz)

\* a window of limits lim is wider than the sample interval at hz
Wider(lim, hz) == Exceeds(lim[2] - lim[1], Frac(1, 1), min_xrange(hz))

\* the widths asked of new_plot, None or above one sample interval
Widths(hz) ==
    LET least == min_xrange(hz).num \div min_xrange(hz).den
    IN  {<< >>, <<least + 1>>, <<(least * 20) \div 19 + 1>>, <<3 * least>>}

\* the centers asked of new_plot with a width: None, or 5 steps and half
\* the width after the first sample, to either side of a half step
Centers(width, first) ==
    IF width = << >> THEN {<< >>}
    ELSE {<< >>, <<first + 5 + width[1] \div 2>>,
                 <<first + 5 + (width[1] + 1) \div 2>>}

\* the plot after load_data and new_plot(center, width) on a recording at
\* hz, from first to last, as the ops-th operation
Plot(hz, first, last, center, width, ops) ==
    [loaded |-> TRUE, hz |-> hz, first |-> first, last |-> last,
     full |-> (width = << >>), ops |-> ops, panned |-> FALSE,
     wide |-> Wider(new_plot(center, width, first, last), hz)]

\* UIFilePlot(file_path), new_plot(center, width): a recording of 3 or of
\* 21 samples
InitView ==
    /\ \E hz \in ViewRates, n \in {3, 21}, first \in {0, 7} :
         \E width \in Widths(hz) :
            \E center \in Centers(width, first) :
               LET last == LastSample(first, n, hz)
               IN  /\ xlim = new_plot(center, width, first, last)
                   /\ plot = Plot(hz, first, last, center, width, 0)
    /\ pc = "idle"
    /\ call = NoCall
    /\ fs = [p \in {} |-> Absent]
    /\ body = << >>
    /\ firmware = 0
    /\ datx = FALSE
    /\ i = 0
    /\ row = 0
    /\ signals = << >>
    /\ oob_read = FALSE
    /\ file_content = NotRead
    /\ metadata = NoMeta
    /\ hdr = << >>
    /\ self = NoObject
    /\ held = NothingHeld
    /\ sqrt_calls = 0
    /\ reread = FALSE
    /\ file_meta = NotExtracted
    /\ writers = << >>
    /\ race = [serial |-> TRUE, order |-> << >>]
    /\ csvfs = << >>
    /\ saves = << >>
    /\ peak = [called |-> FALSE]

\* new_plot(center, width) called again on the recording loaded
NewPlot ==
    /\ plot.loaded /\ plot.ops < MaxOps
    /\ \E width \in Widths(plot.hz) :
         \E center \in Centers(width, plot.first) :
            /\ xlim' = new_plot(center, width, plot.first, plot.last)
            /\ plot' = Plot(plot.hz, plot.first, plot.last, center, width,
                            plot.ops + 1)
    /\ UNCHANGED <<body, firmware, datx, i, row, signals, oob_read, pc, call,
                   fs, file_content, metadata, hdr, self, held, sqrt_calls,
                   reread, file_meta, writers, race, csvfs, saves, peak>>

\* MainWindow.load_new, run_main: load_data(file_path) of another file and
\* new_plot()
load_new ==
    /\ plot.loaded /\ plot.ops < MaxOps
    /\ \E hz \in ViewRates, n \in {3, 21}, first \in {0, 7} :
         LET last == LastSample(first, n, hz)
         IN  /\ xlim' = new_plot(<< >>, << >>, first, last)
             /\ plot' = Plot(hz, first, last, << >>, << >>, plot.ops + 1)
    /\ UNCHANGED <<body, firmware, datx, i, row, signals, oob_read, pc, call,
                   fs, file_content, metadata, hdr, self, held, sqrt_calls,
                   reread, file_meta, writers, race, csvfs, saves, peak>>

NextView ==
    \/ NewPlot
    \/ load_new
    \/ ZoomInButton
    \/ ZoomOutButton
    \/ KeyboardZoom
    \/ PanLeftButton
    \/ PanRightButton
    \/ KeyboardPan

SpecView == InitView /\ [][NextView]_vars

(***************************************************************************)
(* C24.  After zoom operations only, from a view that new_plot left wider  *)
(* than one sample interval, the visible x-range is wider than one sample  *)
(* interval, 1/(86400*hz) days.                                            *)
(***************************************************************************)
WiderThanSampleInterval == Wider(xlim, plot.hz)

C24_NeverDownToSampleInterval ==
    (plot.loaded /\ plot.wide /\ ~plot.panned) => WiderThanSampleInterval

(***************************************************************************)
(* C28.  After pan and zoom operations from the full-recording view, the   *)
(* visible window overlaps the recording: its right edge is after the      *)
(* first timestamp and its left edge before the last.                      *)
(***************************************************************************)
C28_ViewOverlapsRecording ==
    (plot.loaded /\ plot.full) =>
        (xlim[2] > plot.first /\ xlim[1] < plot.last)

(***************************************************************************)
(* C25.  A first group that is the invalid sentinel (255,255,255) or a     *)
(* compressed group (0,0,z) and no tail: decoding goes on to the next      *)
(* group, and every row emitted for the first group is (0,0,0).            *)
(***************************************************************************)
FirstGroupCarries ==
    /\ pc = "loop"
    /\ i = 0
    /\ row = 0
    /\ 2 < length
    /\ IsInvalidGroup(GroupAt(body, 0)) \/ IsCompressedGroup(GroupAt(body, 0))
    /\ ~(\A g \in Garbage : tail(g))

C25_FirstGroupCopiesZeroRow ==
    [][FirstGroupCarries =>
          /\ pc' = "loop"
          /\ i' = 3
          /\ NRows(signals') >= row'
          /\ RowsEqual(signals', 0, row', <<0, 0, 0>>)]_vars

(***************************************************************************)
(* C26.  When the first group of the body is a normal sample, every group  *)
(* leaves the rows emitted before it as they are, and every row it emits   *)
(* is the triplet of the nearest normal group at or before it.             *)
(***************************************************************************)
\* the group at offset k is whole and neither compressed nor invalid
NormalAt(k) ==
    /\ k + 2 < length
    /\ ~IsCompressedGroup(GroupAt(body, k))
    /\ ~IsInvalidGroup(GroupAt(body, k))

\* the triplet of the nearest normal group at or before offset k
LastNormal(k) ==
    LET at == {j \in 0..k : j % 3 = 0 /\ NormalAt(j)}
    IN  GroupAt(body, CHOOSE j \in at : \A h \in at : h <= j)

FirstGroupNormal == 2 < length /\ IsNormalGroup(GroupAt(body, 0))

C26_RowsAreNormalTriplets ==
    [][(pc = "loop" /\ i < length /\ FirstGroupNormal) =>
          /\ \A k \in 0..(row - 1) : At(signals', k) = At(signals, k)
          /\ \A k \in row..(row' - 1) : At(signals', k) = LastNormal(i)]_vars

(***************************************************************************)
(* C27.  On a file load_activpal_data has loaded, extract_metadata_from_   *)
(* file returns a Meta equal, field by field, to the one the load          *)
(* returned: for .datx both parse the first 1024 bytes, for .dat the load  *)
(* parses 1023 and extract_metadata_from_file 1024.                        *)
(***************************************************************************)
MetaFields ==
    {"firmware", "bitdepth", "resolution", "hz", "axes", "start_datetime",
     "stop_datetime", "duration", "start_condition", "stop_condition",
     "file_code", "device_id"}

ExtractedFromLoaded == file_meta.called /\ file_meta.path = call.path

C27_SameMetadata ==
    ExtractedFromLoaded =>
        /\ file_meta.meta.err = "none"
        /\ \A f \in MetaFields : file_meta.meta[f] = metadata[f]

\* a .dat file longer than its 1023-byte header
C27_Witness ==
    /\ ExtractedFromLoaded
    /\ ~datx
    /\ Len(fs[call.path].data) > 1023
    /\ pc = "returned"

====
